---- MODULE Spec2Model ----
(***************************************************************************)
(* DynamicsSim: the force hierarchy, the composite force and the three     *)
(* time-stepping functions of lib/physics.cpp, as a state machine.         *)
(*                                                                         *)
(* Numbers.  The program computes in IEEE-754 binary32 (float).  The model *)
(* keeps the shape of that arithmetic in a small binary floating-point     *)
(* format: a number is an integer count of quanta of 2^-FracBits, and the  *)
(* result of every operation is rounded to the nearest number with at most *)
(* MantBits significant bits, ties to even.  binary32 is the same format   *)
(* with MantBits = 24 and a quantum of 2^-149.                             *)
(***************************************************************************)
EXTENDS Integers, Sequences, FiniteSets, TLC

\* Significant bits of the floating-point format.
MantBits == 4
\* Binary digits after the point: one quantum is 2^-FracBits.
FracBits == 2

RECURSIVE Pow2(_)
Pow2(k) == IF k = 0 THEN 1 ELSE 2 * Pow2(k - 1)

\* The integer that stands for 1.0f.
Scale == Pow2(FracBits)

Abs(x) == IF x < 0 THEN -x ELSE x

\* v evaluated once and handed to Body: a statement of the code, whose
\* result the statements after it read.
LetIn(v, Body(_)) == CHOOSE r \in {Body(x) : x \in {v}} : TRUE

\* a/m rounded to the nearest integer, ties to the even one (a >= 0, m > 0).
RoundNearestEven(a, m) ==
    LET q == a \div m
        r == a % m
    IN  IF 2 * r < m THEN q
        ELSE IF 2 * r > m THEN q + 1
        ELSE IF q % 2 = 0 THEN q ELSE q + 1

\* The first integer that needs more than MantBits bits.
MantLimit == Pow2(MantBits)

\* The spacing of the format around a/d: the least power of two s >= s0
\* with a/d < s * 2^MantBits.
RECURSIVE Ulp(_, _, _)
Ulp(a, d, s) == IF a \div MantLimit < d * s THEN s ELSE Ulp(a, d, 2 * s)

\* The rational n/d (d > 0, in quanta) rounded to the format.
RoundRat(n, d) ==
    LET a == Abs(n)
        s == Ulp(a, d, 1)
        m == RoundNearestEven(a, d * s) * s
    IN  IF n < 0 THEN -m ELSE m

\* float operator+, operator-, operator*, operator/ (divisor non-zero).
FAdd(a, b) == RoundRat(a + b, 1)
FSub(a, b) == RoundRat(a - b, 1)
FMul(a, b) == RoundRat(a * b, Scale)
FDiv(a, b) == IF b < 0 THEN RoundRat(-(a * Scale), -b) ELSE RoundRat(a * Scale, b)
FNeg(a) == -a

\* A decimal literal num/den (den > 0) as the compiler rounds it to the format.
Lit(num, den) == RoundRat(num * Scale, den)

\* The integer part of the square root of v >= 0.
RECURSIVE ISqrt(_)
ISqrt(v) ==
    IF v < 2 THEN v
    ELSE LetIn(2 * ISqrt(v \div 4), LAMBDA r :
             IF (r + 1) * (r + 1) <= v THEN r + 1 ELSE r)

\* sqrtf: the square root of a >= 0 rounded to the format.  lo is the
\* number of the format just below or at the root, lo + s the next one; the
\* root is compared with their midpoint.
FSqrt(a) ==
    LetIn(a * Scale, LAMBDA v :
    LetIn(Ulp(ISqrt(v), 1, 1), LAMBDA s :
    LetIn((ISqrt(v) \div s) * s, LAMBDA lo :
        IF 4 * v < (2 * lo + s) * (2 * lo + s) THEN lo
        ELSE IF 4 * v > (2 * lo + s) * (2 * lo + s) THEN lo + s
        ELSE IF (lo \div s) % 2 = 0 THEN lo ELSE lo + s)))

\* double: the same kind of format with DoubleExtraBits more significant
\* bits and a quantum DoubleExtraBits binary digits finer.  A double is an
\* integer count of those finer quanta.
DoubleExtraBits == 3
DoubleUnit == Pow2(DoubleExtraBits)
DoubleLimit == MantLimit * DoubleUnit

\* The spacing of the double format around a/d.
RECURSIVE UlpDouble(_, _, _)
UlpDouble(a, d, s) ==
    IF a \div DoubleLimit < d * s THEN s ELSE UlpDouble(a, d, 2 * s)

\* The rational n/d (d > 0, in double quanta) rounded to a double.
RoundDouble(n, d) ==
    LET a == Abs(n)
        s == UlpDouble(a, d, 1)
        m == RoundNearestEven(a, d * s) * s
    IN  IF n < 0 THEN -m ELSE m

\* float -> double (exact) and double -> float (rounded).
ToDouble(a) == a * DoubleUnit
ToFloat(x) == RoundRat(x, DoubleUnit)

\* double operator+, operator-, operator>=.
DAdd(x, y) == RoundDouble(x + y, 1)
DSub(x, y) == RoundDouble(x - y, 1)

\* The same cube for an x whose cube is beyond the integers at hand:
\* x = m * s with s the spacing of the floats at x, and the two roundings
\* act on m^3 alone, s^3 / Scale^2 being a power of two.
FPow3Large(x) ==
    LetIn(Ulp(x, 1, 1), LAMBDA s :
        RoundRat(RoundDouble((x \div s) * (x \div s) * (x \div s), 1), 1)
            * ((s * s * s) \div (Scale * Scale)))

\* (float)pow(x, 3) for a float x >= 0: the argument is promoted, the cube
\* is rounded to a double and then narrowed to float.
FPow3(x) ==
    IF x < Pow2(10)
    THEN ToFloat(RoundDouble(x * x * x, (Scale * Scale) \div DoubleUnit))
    ELSE FPow3Large(x)

\* A float that may not be finite: class is "finite" (val the number),
\* "inf" (val its sign, 1 or -1) or "nan" (val 0).
Finite(a) == [class |-> "finite", val |-> a]
Infinity(sign) == [class |-> "inf", val |-> sign]
NaN == [class |-> "nan", val |-> 0]

\* float operator/ of two finite floats, IEEE-754 division by zero included:
\* x/0 is an infinity of x's sign for x # 0, and 0/0 is NaN.
XDiv(a, b) ==
    IF b # 0 THEN Finite(FDiv(a, b))
    ELSE IF a = 0 THEN NaN
    ELSE Infinity(IF a > 0 THEN 1 ELSE -1)

\* float operator* of a float that may not be finite and a finite float:
\* infinity times zero is NaN.
XMul(x, b) ==
    IF x.class = "finite" THEN Finite(FMul(x.val, b))
    ELSE IF x.class = "nan" \/ b = 0 THEN NaN
    ELSE Infinity(IF b > 0 THEN x.val ELSE -x.val)

(***************************************************************************)
(* glm::vec3: a triple of floats with component-wise operations.           *)
(***************************************************************************)
Vec3Zero == <<0, 0, 0>>
VAdd(u, v) == <<FAdd(u[1], v[1]), FAdd(u[2], v[2]), FAdd(u[3], v[3])>>
VSub(u, v) == <<FSub(u[1], v[1]), FSub(u[2], v[2]), FSub(u[3], v[3])>>
VMulS(v, s) == <<FMul(v[1], s), FMul(v[2], s), FMul(v[3], s)>>
VDivS(v, s) == <<FDiv(v[1], s), FDiv(v[2], s), FDiv(v[3], s)>>
VNeg(v) == <<-v[1], -v[2], -v[3]>>
\* scalar * vec3 with a scalar that may not be finite.
XVMulS(x, v) == <<XMul(x, v[1]), XMul(x, v[2]), XMul(x, v[3])>>
\* glm::dot: the products summed left to right.
VDot(u, v) == FAdd(FAdd(FMul(u[1], v[1]), FMul(u[2], v[2])), FMul(u[3], v[3]))

\* glm::length: sqrt(dot(v, v)).
VLength(v) == FSqrt(VDot(v, v))

(***************************************************************************)
(* Physical constants (include/physics.hpp).                               *)
(***************************************************************************)
g == Lit(9806, 1000)

(***************************************************************************)
(* The Force objects the caller owns.  A CompositeForce holds pointers to  *)
(* them; the model names each object by a string.                          *)
(***************************************************************************)
Composites == {"c1", "c2"}
LeafForces == {"earth", "hooke", "air"}
ForceIds == LeafForces \cup Composites

\* Constructor arguments of the three leaf objects.
EarthMass == Scale
HookeK == Scale
HookeAnchor == Vec3Zero
AirDrag == Scale \div 2

\* EarthGravitationalForce::computeForce / computeEnergy
EarthComputeForce(position, velocity, time) ==
    <<0, FMul(FNeg(EarthMass), g), 0>>
EarthComputeEnergy(position, velocity, time) ==
    FMul(FMul(EarthMass, g), position[2])

\* A spring that pulls towards the origin wherever its anchor is.
HookeComputeForceAtOrigin(anchor, position, velocity, time) ==
    VMulS(position, FNeg(HookeK))

\* HookeForce::computeForce / computeEnergy of an object whose anchorPoint
\* field holds anchor.
HookeComputeForceAt(anchor, position, velocity, time) ==
    VMulS(VSub(position, anchor), FNeg(HookeK))
HookeComputeEnergyAt(anchor, position, velocity, time) ==
    LET d == VSub(position, anchor)
    IN  FMul(FMul(Lit(1, 2), HookeK), VDot(d, d))

\* The spring the composites hold: constructed with HookeAnchor, never
\* re-anchored.
HookeComputeForce(position, velocity, time) ==
    HookeComputeForceAt(HookeAnchor, position, velocity, time)
HookeComputeEnergy(position, velocity, time) ==
    HookeComputeEnergyAt(HookeAnchor, position, velocity, time)

\* AirResistanceForce::computeForce / computeEnergy
AirComputeForce(position, velocity, time) ==
    VMulS(velocity, FNeg(AirDrag))
AirComputeEnergy(position, velocity, time) ==
    FMul(FMul(Lit(1, 2), AirDrag), VDot(velocity, velocity))

\* The objects of the two inverse-square classes, and the objects that have
\* an anchorPoint field.
InverseForces == {"electric", "gravitational"}
AnchoredForces == {"hooke"} \cup InverseForces

\* -k_e * charge_1 * charge_2 of the electric object and
\* -G * mass_1 * mass_2 of the gravitational one: the float each call forms
\* from the constant and the two fields set at construction (unlike charges
\* for the first, so the product is positive; negative for the second).
ElectricCoupling == 2 * Scale
GravitationalCoupling == -(3 * Scale)

\* ElectricForce::computeForce / computeEnergy, anchor the object's
\* anchorPoint:
\*     -k_e * charge_1 * charge_2 / (float)pow(glm::length(r), 3) * r
\*     -k_e * charge_1 * charge_2 / glm::length(r)
\* with r = position - anchorPoint.  Nothing is thrown: the result is what
\* float division gives, for a zero length too.
ElectricComputeForce(anchor, position, velocity, time) ==
    XVMulS(XDiv(ElectricCoupling, FPow3(VLength(VSub(position, anchor)))),
           VSub(position, anchor))
ElectricComputeEnergy(anchor, position, velocity, time) ==
    XDiv(ElectricCoupling, VLength(VSub(position, anchor)))

\* GravitationalForce::computeForce / computeEnergy
GravitationalComputeForce(anchor, position, velocity, time) ==
    XVMulS(XDiv(GravitationalCoupling,
                FPow3(VLength(VSub(position, anchor)))),
           VSub(position, anchor))
GravitationalComputeEnergy(anchor, position, velocity, time) ==
    XDiv(GravitationalCoupling, VLength(VSub(position, anchor)))

\* Virtual dispatch on an object of the two inverse-square classes.
InverseComputeForce(f, anchor, position, velocity, time) ==
    IF f = "electric"
    THEN ElectricComputeForce(anchor, position, velocity, time)
    ELSE GravitationalComputeForce(anchor, position, velocity, time)
InverseComputeEnergy(f, anchor, position, velocity, time) ==
    IF f = "electric"
    THEN ElectricComputeEnergy(anchor, position, velocity, time)
    ELSE GravitationalComputeEnergy(anchor, position, velocity, time)

\* Virtual dispatch on a leaf object.
LeafComputeForce(f, position, velocity, time) ==
    CASE f = "earth" -> EarthComputeForce(position, velocity, time)
      [] f = "hooke" -> HookeComputeForce(position, velocity, time)
      [] f = "air"   -> AirComputeForce(position, velocity, time)
LeafComputeEnergy(f, position, velocity, time) ==
    CASE f = "earth" -> EarthComputeEnergy(position, velocity, time)
      [] f = "hooke" -> HookeComputeEnergy(position, velocity, time)
      [] f = "air"   -> AirComputeEnergy(position, velocity, time)

(***************************************************************************)
(* CompositeForce.  fs maps each composite to its vector of pointers.      *)
(***************************************************************************)
RECURSIVE ComputeForce(_, _, _, _, _)
RECURSIVE ComputeEnergy(_, _, _, _, _)
RECURSIVE CompositeForceLoop(_, _, _, _, _, _)
RECURSIVE CompositeEnergyLoop(_, _, _, _, _, _)
RECURSIVE CompositeForceLoopSkipFirst(_, _, _, _, _, _)

\* The loop of computeForce with every entry assigned to the total, not added.
CompositeForceLoopAssign(fs, list, n, position, velocity, time) ==
    IF n = 0 THEN Vec3Zero
    ELSE ComputeForce(fs, list[n], position, velocity, time)

\* The loop of computeForce started after the first entry.
CompositeForceLoopSkipFirst(fs, list, n, position, velocity, time) ==
    IF n <= 1 THEN Vec3Zero
    ELSE VAdd(CompositeForceLoopSkipFirst(fs, list, n - 1, position, velocity,
                                          time),
              ComputeForce(fs, list[n], position, velocity, time))

\* The range-for of CompositeForce::computeForce after n entries:
\* totalForce += force->computeForce(position, velocity, time).
CompositeForceLoop(fs, list, n, position, velocity, time) ==
    IF n = 0 THEN Vec3Zero
    ELSE VAdd(CompositeForceLoop(fs, list, n - 1, position, velocity, time),
              ComputeForce(fs, list[n], position, velocity, time))

\* The range-for of CompositeForce::computeEnergy after n entries.
CompositeEnergyLoop(fs, list, n, position, velocity, time) ==
    IF n = 0 THEN 0
    ELSE FAdd(CompositeEnergyLoop(fs, list, n - 1, position, velocity, time),
              ComputeEnergy(fs, list[n], position, velocity, time))

\* CompositeForce::computeForce / computeEnergy
CompositeComputeForce(fs, c, position, velocity, time) ==
    CompositeForceLoop(fs, fs[c], Len(fs[c]), position, velocity, time)
CompositeComputeEnergy(fs, c, position, velocity, time) ==
    CompositeEnergyLoop(fs, fs[c], Len(fs[c]), position, velocity, time)

\* The call through a Force pointer with a composite member taken as no force.
ComputeForceLeavesOnly(fs, f, position, velocity, time) ==
    IF f \in Composites
    THEN Vec3Zero
    ELSE LeafComputeForce(f, position, velocity, time)

\* f->computeForce(...) / f->computeEnergy(...) through a Force pointer.
ComputeForce(fs, f, position, velocity, time) ==
    IF f \in Composites
    THEN CompositeComputeForce(fs, f, position, velocity, time)
    ELSE LeafComputeForce(f, position, velocity, time)
ComputeEnergy(fs, f, position, velocity, time) ==
    IF f \in Composites
    THEN CompositeComputeEnergy(fs, f, position, velocity, time)
    ELSE LeafComputeEnergy(f, position, velocity, time)

\* An addForce that would keep a set: nothing appended when &force is
\* registered already.
AddForceListOnce(list, f) ==
    IF \E i \in 1..Len(list) : list[i] = f THEN list ELSE Append(list, f)

\* CompositeForce::addForce: forces.push_back(&force).
AddForceList(list, f) == Append(list, f)

\* A removeForce that would erase every entry equal to &force.
RemoveForceListEvery(list, f) == SelectSeq(list, LAMBDA e : e # f)

\* CompositeForce::removeForce: erase the first entry equal to &force, if any.
RemoveForceList(list, f) ==
    IF \E i \in 1..Len(list) : list[i] = f
    THEN LET i == CHOOSE j \in 1..Len(list) :
                    /\ list[j] = f
                    /\ \A h \in 1..(j - 1) : list[h] # f
         IN  SubSeq(list, 1, i - 1) \o SubSeq(list, i + 1, Len(list))
    ELSE list

(***************************************************************************)
(* Propagation: generalizedVector and the three stepping functions.        *)
(***************************************************************************)
generalizedVector(pos, vel) == [position |-> pos, velocity |-> vel]

\* explicitEuler with the position advanced by the updated velocity.
explicitEulerUpdatedVelocity(fs, f, state, mass, currentTime, deltaTime) ==
    LET force == ComputeForce(fs, f, state.position, state.velocity, currentTime)
        newVelocity == VAdd(state.velocity, VMulS(VDivS(force, mass), deltaTime))
    IN  generalizedVector(
            VAdd(state.position, VMulS(newVelocity, deltaTime)),
            newVelocity)

\* Propagation::explicitEuler
explicitEuler(fs, f, state, mass, currentTime, deltaTime) ==
    LET force == ComputeForce(fs, f, state.position, state.velocity, currentTime)
    IN  generalizedVector(
            VAdd(state.position, VMulS(state.velocity, deltaTime)),
            VAdd(state.velocity, VMulS(VDivS(force, mass), deltaTime)))

\* simplecticEuler with the position advanced by the pre-step velocity.
simplecticEulerOldVelocity(fs, f, state, mass, currentTime, deltaTime) ==
    LET force == ComputeForce(fs, f, state.position, state.velocity, currentTime)
        newVelocity == VAdd(state.velocity, VMulS(VDivS(force, mass), deltaTime))
    IN  generalizedVector(
            VAdd(state.position, VMulS(state.velocity, deltaTime)),
            newVelocity)

\* Propagation::simplecticEuler
simplecticEuler(fs, f, state, mass, currentTime, deltaTime) ==
    LET force == ComputeForce(fs, f, state.position, state.velocity, currentTime)
        newVelocity == VAdd(state.velocity, VMulS(VDivS(force, mass), deltaTime))
    IN  generalizedVector(
            VAdd(state.position, VMulS(newVelocity, deltaTime)),
            newVelocity)

\* A stage of rungeKutta4 evaluated where the step starts, not advanced along
\* the previous stage's slope.
rk4StageAtStart(fs, f, state, mass, currentTime, kxPrev, kvPrev, h) ==
    LetIn(VAdd(state.velocity, VMulS(kvPrev, h)), LAMBDA kx :
    LetIn(FAdd(currentTime, h), LAMBDA time :
    LetIn(ComputeForce(fs, f, state.position, kx, time), LAMBDA force :
        [kx |-> kx, kv |-> VDivS(force, mass), force |-> force,
         eval |-> [position |-> state.position, velocity |-> kx,
                   time |-> time]])))

\* One of the stages 1..3 of rungeKutta4, h after the start of the step:
\*     kx[i] = state.velocity + kv[i-1] * h;
\*     force = f->computeForce(state.position + kx[i-1] * h, kx[i],
\*                             currentTime + h);
\*     kv[i] = force / mass;
rk4Stage(fs, f, state, mass, currentTime, kxPrev, kvPrev, h) ==
    LetIn(VAdd(state.velocity, VMulS(kvPrev, h)), LAMBDA kx :
    LetIn(VAdd(state.position, VMulS(kxPrev, h)), LAMBDA pos :
    LetIn(FAdd(currentTime, h), LAMBDA time :
    LetIn(ComputeForce(fs, f, pos, kx, time), LAMBDA force :
        [kx |-> kx, kv |-> VDivS(force, mass), force |-> force,
         eval |-> [position |-> pos, velocity |-> kx, time |-> time]]))))

\* The four slopes added with equal weights.
rk4CombineUnweighted(x, deltaTime, k) ==
    VAdd(x, VMulS(VAdd(VAdd(VAdd(k[1], k[2]), k[3]), k[4]),
                  FDiv(deltaTime, Lit(6, 1))))

\* x + deltaTime / 6.0f * (k[0] + 2.0f * k[1] + 2.0f * k[2] + k[3])
rk4Combine(x, deltaTime, k) ==
    VAdd(x, VMulS(VAdd(VAdd(VAdd(k[1], VMulS(k[2], Lit(2, 1))),
                            VMulS(k[3], Lit(2, 1))),
                       k[4]),
                  FDiv(deltaTime, Lit(6, 1))))

\* Propagation::rungeKutta4.  kx, kv and force are function-local statics:
\* they outlive the call, and the initialiser of force runs on the first call
\* only (statics.initialised is the compiler's guard of that initialiser), so
\* a later call starts from the force the call before it left.
\* The value is the returned state, the statics after the call, and the
\* arguments of the computeForce calls made, in order.
rungeKutta4(fs, f, state, mass, currentTime, deltaTime, statics) ==
    LetIn(FDiv(deltaTime, Lit(2, 1)), LAMBDA half :
    LetIn(IF ~statics.initialised
          THEN ComputeForce(fs, f, state.position, state.velocity, currentTime)
          ELSE statics.force, LAMBDA force0 :
    LetIn([kx |-> state.velocity, kv |-> VDivS(force0, mass)], LAMBDA s0 :
    LetIn(rk4Stage(fs, f, state, mass, currentTime, s0.kx, s0.kv, half),
          LAMBDA s1 :
    LetIn(rk4Stage(fs, f, state, mass, currentTime, s1.kx, s1.kv, half),
          LAMBDA s2 :
    LetIn(rk4Stage(fs, f, state, mass, currentTime, s2.kx, s2.kv, deltaTime),
          LAMBDA s3 :
    LetIn(<<s0.kx, s1.kx, s2.kx, s3.kx>>, LAMBDA kx :
    LetIn(<<s0.kv, s1.kv, s2.kv, s3.kv>>, LAMBDA kv :
        [ret |-> generalizedVector(rk4Combine(state.position, deltaTime, kx),
                                   rk4Combine(state.velocity, deltaTime, kv)),
         statics |-> [initialised |-> TRUE, force |-> s3.force,
                      kx |-> kx, kv |-> kv],
         evals |-> (IF ~statics.initialised
                    THEN <<[position |-> state.position,
                            velocity |-> state.velocity,
                            time |-> currentTime]>>
                    ELSE <<>>)
                   \o <<s1.eval, s2.eval, s3.eval>>]))))))))

(***************************************************************************)
(* The driver (src/main.cpp): Kepler's problem stepped by its own copy of  *)
(* the Runge-Kutta step.                                                   *)
(***************************************************************************)
\* The driver's constants and initial values (G = 900000, mass = 1,
\* currentPos = (55, 0, 0), currentVel = (70, 70, 0), deltaTime = 0.001)
\* span more orders of magnitude than this float format holds: 0.001 would
\* round to zero.  The driver is modelled on a bound orbit of the same
\* shape in units the format holds: a step of 1.0, whose sixth is not zero,
\* the body on the positive x axis moving towards +x and +y.
G == Lit(64, 1)
DriverMass == Lit(1, 1)
DriverDeltaTime == Lit(1, 1)
DriverPos == <<Lit(4, 1), 0, 0>>
DriverVel == <<Lit(2, 1), Lit(3, 1), 0>>

\* f(x, v, t): (-G / (float)pow(glm::length(x), 3)) * x
KeplerForce(x, v, t) == XVMulS(XDiv(FNeg(G), FPow3(VLength(x))), x)

\* The components of a vector of floats that are all finite.
AllFinite(xv) == \A i \in 1..3 : xv[i].class = "finite"
Val(xv) == <<xv[1].val, xv[2].val, xv[3].val>>

\* One of the stages 1..3 of increaseTime, h after the start of the step:
\*     kx[i] = currentVel + kv[i-1] * h;
\*     force = f(currentPos + kx[i-1] * h, kx[i], currentTime + h);
\*     kv[i] = force * (1.0f / mass);
increaseTimeStage(s, kxPrev, kvPrev, h) ==
    LetIn(VAdd(s.currentVel, VMulS(kvPrev, h)), LAMBDA kx :
    LetIn(KeplerForce(VAdd(s.currentPos, VMulS(kxPrev, h)), kx,
                      FAdd(s.currentTime, h)), LAMBDA force :
        [kx |-> kx, kv |-> VMulS(Val(force), FDiv(Scale, DriverMass)),
         force |-> Val(force), finite |-> AllFinite(force)]))

\* A step that advances the time and records no sample.
increaseTimeNoSample(s) == [s EXCEPT !.currentTime = FAdd(@, DriverDeltaTime)]

\* increaseTime().  s holds the globals and the static force with the guard
\* of its initialiser (the static kx and kv are assigned before they are
\* read in every call, so they carry nothing from call to call).  finite
\* records that no force evaluated so far had an infinite or NaN component.
increaseTime(s) ==
    LetIn(FDiv(DriverDeltaTime, Lit(2, 1)), LAMBDA half :
    LetIn(IF ~s.initialised
          THEN KeplerForce(s.currentPos, s.currentVel, s.currentTime)
          ELSE <<Finite(s.force[1]), Finite(s.force[2]), Finite(s.force[3])>>,
          LAMBDA force0 :
    LetIn([kx |-> s.currentVel,
           kv |-> VMulS(Val(force0), FDiv(Scale, DriverMass)),
           finite |-> AllFinite(force0)], LAMBDA s0 :
    LetIn(increaseTimeStage(s, s0.kx, s0.kv, half), LAMBDA s1 :
    LetIn(increaseTimeStage(s, s1.kx, s1.kv, half), LAMBDA s2 :
    LetIn(increaseTimeStage(s, s2.kx, s2.kv, DriverDeltaTime), LAMBDA s3 :
        [s EXCEPT
            !.trajectory = Append(@, s.currentPos),
            !.initialised = TRUE,
            !.force = s3.force,
            !.currentTime = FAdd(@, DriverDeltaTime),
            !.currentPos = rk4Combine(@, DriverDeltaTime,
                                      <<s0.kx, s1.kx, s2.kx, s3.kx>>),
            !.currentVel = rk4Combine(@, DriverDeltaTime,
                                      <<s0.kv, s1.kv, s2.kv, s3.kv>>),
            !.finite = @ /\ s0.finite /\ s1.finite /\ s2.finite
                         /\ s3.finite]))))))

(***************************************************************************)
(* CameraController.                                                       *)
(***************************************************************************)
\* CameraController::CameraController
CameraController(cameraPos, angle, zoom, cameraSpeed, angularSpeed, zoomSpeed) ==
    [cameraPos |-> cameraPos, angle |-> angle, zoom |-> zoom,
     cameraSpeed |-> cameraSpeed, angularSpeed |-> angularSpeed,
     zoomSpeed |-> zoomSpeed]

\* The keys glfwGetKey is asked about.
CameraKeys == {"A", "D", "W", "S", "X", "Y", "Z", "LEFT_SHIFT",
               "RIGHT_SHIFT", "UP", "DOWN"}

\* A camera that moves at full speed on both axes of a diagonal, and does
\* nothing else.
moveCameraUnscaled(cam, keys) ==
    [cam EXCEPT
        !.cameraPos[1] =
            IF ("A" \in keys) # ("D" \in keys)
            THEN FAdd(@, IF "A" \in keys THEN cam.cameraSpeed
                                         ELSE -cam.cameraSpeed)
            ELSE @,
        !.cameraPos[2] =
            IF ("W" \in keys) # ("S" \in keys)
            THEN FAdd(@, IF "S" \in keys THEN cam.cameraSpeed
                                         ELSE -cam.cameraSpeed)
            ELSE @]

\* CameraController::moveCamera(window), keys the set of keys for which
\* glfwGetKey(window, key) == GLFW_PRESS.
moveCamera(cam, keys) ==
    LET horizontal == ("A" \in keys) # ("D" \in keys)
        vertical == ("W" \in keys) # ("S" \in keys)
        cameraSpeed == IF horizontal /\ vertical
                       THEN FMul(cam.cameraSpeed, Lit(7071, 10000))
                       ELSE cam.cameraSpeed
        shiftPressed == "LEFT_SHIFT" \in keys \/ "RIGHT_SHIFT" \in keys
        turn == FMul(cam.angularSpeed, IF shiftPressed THEN Scale ELSE -Scale)
        zoomed == IF "UP" \in keys
                  THEN FMul(cam.zoom, FAdd(Scale, cam.zoomSpeed))
                  ELSE cam.zoom
    IN  [cam EXCEPT
            !.cameraPos[1] =
                IF horizontal
                THEN FAdd(@, FMul(cameraSpeed,
                                  IF "A" \in keys THEN Scale ELSE -Scale))
                ELSE @,
            !.cameraPos[2] =
                IF vertical
                THEN FAdd(@, FMul(cameraSpeed,
                                  IF "S" \in keys THEN Scale ELSE -Scale))
                ELSE @,
            !.angle[1] = IF "X" \in keys THEN FAdd(@, turn) ELSE @,
            !.angle[2] = IF "Y" \in keys THEN FAdd(@, turn) ELSE @,
            !.angle[3] = IF "Z" \in keys THEN FAdd(@, turn) ELSE @,
            !.zoom = IF "DOWN" \in keys
                     THEN FMul(zoomed, FSub(Scale, cam.zoomSpeed))
                     ELSE zoomed]

(***************************************************************************)
(* State.                                                                  *)
(***************************************************************************)
VARIABLES
    forces,     \* CompositeForce::forces of each composite object
    statics,    \* rungeKutta4's static kx[4], kv[4], force and its guard
    last,       \* the latest call of a stepping function: arguments, result
    evals,      \* the computeForce calls that call made, in order
    earlier,    \* one of the calls before it, as it was recorded in last
    anchorPoint,\* anchorPoint of each object that has the field
    sim,        \* the driver's globals and the locals of its animation loop
    camera      \* the fields of the CameraController object

vars == <<forces, statics, last, evals, earlier, anchorPoint, sim, camera>>

NoCall == [op |-> "none"]

\* Before the first call: static storage is zero-initialised, force is not
\* yet constructed.
StaticsInit ==
    [initialised |-> FALSE,
     force |-> Vec3Zero,
     kx |-> <<Vec3Zero, Vec3Zero, Vec3Zero, Vec3Zero>>,
     kv |-> <<Vec3Zero, Vec3Zero, Vec3Zero, Vec3Zero>>]

\* The driver's globals as the program starts (src/main.cpp): the
\* initialisers of currentPos, currentVel and currentTime, an empty
\* trajectory, the static force of increaseTime not yet constructed; and
\* the locals of main before the animation loop: accumulator 0.0 (a double,
\* counted in quanta of that format), not inside a frame.  elapsed is the
\* exact sum of the frame times so far and exact records that no addition
\* to or subtraction from the accumulator was rounded.
SimInit ==
    [currentPos |-> DriverPos,
     currentVel |-> DriverVel,
     currentTime |-> 0,
     trajectory |-> <<>>,
     initialised |-> FALSE,
     force |-> Vec3Zero,
     finite |-> TRUE,
     accumulator |-> 0,
     inFrame |-> FALSE,
     elapsed |-> 0,
     exact |-> TRUE]

\* Each anchored object was constructed with the default anchor,
\* glm::vec3(0.0f).
AnchorInit == [f \in AnchoredForces |-> Vec3Zero]

\* A default-constructed CameraController: position and angle zero, zoom
\* 1.0f, the three speeds 0.0f.
CameraDefault == CameraController(Vec3Zero, Vec3Zero, Scale, 0, 0, 0)

Call(op, f, state, mass, t, dt, ret) ==
    [op |-> op, f |-> f, state |-> state, mass |-> mass, t |-> t, dt |-> dt,
     ret |-> ret]

\* A call evaluates the force once at the state and time it was given.
OneEval(state, t) ==
    <<[position |-> state.position, velocity |-> state.velocity, time |-> t]>>

\* The driver's set-up has run: c1 is an empty composite (no force acts),
\* c2 holds a spring and a drag force.
InitStepping ==
    /\ forces = [c \in Composites |->
                    IF c = "c2" THEN <<"hooke", "air">> ELSE <<>>]
    /\ statics = StaticsInit
    /\ last = NoCall
    /\ evals = <<>>
    /\ earlier = NoCall
    /\ anchorPoint = AnchorInit
    /\ sim = SimInit
    /\ camera = CameraDefault

\* A caller calls explicitEuler(&f, state, mass, t, dt).
StepExplicitEuler(Fs, States, Masses, Times, Deltas) ==
    \E f \in Fs, state \in States, mass \in Masses, t \in Times, dt \in Deltas :
        /\ last' = Call("explicitEuler", f, state, mass, t, dt,
                        explicitEuler(forces, f, state, mass, t, dt))
        /\ evals' = OneEval(state, t)
        /\ UNCHANGED <<forces, statics, anchorPoint, sim, camera>>

\* A caller calls simplecticEuler(&f, state, mass, t, dt).
StepSimplecticEuler(Fs, States, Masses, Times, Deltas) ==
    \E f \in Fs, state \in States, mass \in Masses, t \in Times, dt \in Deltas :
        /\ last' = Call("simplecticEuler", f, state, mass, t, dt,
                        simplecticEuler(forces, f, state, mass, t, dt))
        /\ evals' = OneEval(state, t)
        /\ UNCHANGED <<forces, statics, anchorPoint, sim, camera>>

\* A caller calls rungeKutta4(&f, state, mass, t, dt).
StepRungeKutta4(Fs, States, Masses, Times, Deltas) ==
    \E f \in Fs, state \in States, mass \in Masses, t \in Times, dt \in Deltas :
        \E r \in {rungeKutta4(forces, f, state, mass, t, dt, statics)} :
            /\ last' = Call("rungeKutta4", f, state, mass, t, dt, r.ret)
            /\ statics' = r.statics
            /\ evals' = r.evals
            /\ UNCHANGED <<forces, anchorPoint, sim, camera>>

(***************************************************************************)
(* Spec: callers of rungeKutta4.                                           *)
(***************************************************************************)
RkForces == {"c1", "earth", "hooke", "c2"}
RkStates == {generalizedVector(<<Scale, 0, 0>>, Vec3Zero),
             generalizedVector(<<-2, 6, 1>>, <<2, -3, 0>>)}
RkMasses == {Scale, 2 * Scale}
RkTimes == {Scale}
RkDeltas == {Scale, -Scale}

Init == InitStepping

CallRungeKutta4 ==
    /\ StepRungeKutta4(RkForces, RkStates, RkMasses, RkTimes, RkDeltas)
    /\ UNCHANGED earlier

Next == CallRungeKutta4

Spec == Init /\ [][Next]_vars

(***************************************************************************)
(* SpecEuler: callers of explicitEuler and simplecticEuler.                *)
(***************************************************************************)
EulerForces == {"c1", "earth", "hooke", "c2"}
EulerPositions == {<<Scale, 0, 0>>, <<-2, 6, 13>>}
EulerVelocities == {Vec3Zero, <<2, -3 * Scale, 1>>}
EulerStates ==
    {generalizedVector(p, v) : p \in EulerPositions, v \in EulerVelocities}
EulerMasses == {Scale, 3, 8 * Scale}
EulerTimes == {0, Scale}
EulerDeltas == {Scale, 1, -3 * Scale}

CallExplicitEuler ==
    /\ StepExplicitEuler(EulerForces, EulerStates, EulerMasses, EulerTimes,
                         EulerDeltas)
    /\ UNCHANGED earlier

CallSimplecticEuler ==
    /\ StepSimplecticEuler(EulerForces, EulerStates, EulerMasses, EulerTimes,
                           EulerDeltas)
    /\ UNCHANGED earlier

NextEuler ==
    \/ CallExplicitEuler
    \/ CallSimplecticEuler

SpecEuler == Init /\ [][NextEuler]_vars

(***************************************************************************)
(* SpecPurity: callers that mix the three stepping functions; earlier      *)
(* keeps the record of any one of the calls made before the latest.        *)
(***************************************************************************)
PurityForces == {"hooke", "c2"}
PurityStates == {generalizedVector(<<Scale, 0, 0>>, Vec3Zero),
                 generalizedVector(<<-2, 6, 1>>, <<2, -3, 0>>)}
PurityMasses == {2 * Scale}
PurityTimes == {Scale}
PurityDeltas == {Scale}

MixExplicitEuler ==
    /\ StepExplicitEuler(PurityForces, PurityStates, PurityMasses, PurityTimes,
                         PurityDeltas)
    /\ earlier' \in {earlier, last}

MixSimplecticEuler ==
    /\ StepSimplecticEuler(PurityForces, PurityStates, PurityMasses,
                           PurityTimes, PurityDeltas)
    /\ earlier' \in {earlier, last}

MixRungeKutta4 ==
    /\ StepRungeKutta4(PurityForces, PurityStates, PurityMasses, PurityTimes,
                       PurityDeltas)
    /\ earlier' \in {earlier, last}

NextPurity ==
    \/ MixExplicitEuler
    \/ MixSimplecticEuler
    \/ MixRungeKutta4

SpecPurity == Init /\ [][NextPurity]_vars

(***************************************************************************)
(* SpecComposite: callers that register and deregister forces in the two   *)
(* composites, starting from two newly constructed (empty) ones.           *)
(***************************************************************************)
\* The longest registration list the callers build.
MaxForces == 3

InitComposite ==
    /\ forces = [c \in Composites |-> <<>>]
    /\ statics = StaticsInit
    /\ last = NoCall
    /\ evals = <<>>
    /\ earlier = NoCall
    /\ anchorPoint = AnchorInit
    /\ sim = SimInit
    /\ camera = CameraDefault

\* c.addForce(f)
AddForce(c, f) ==
    /\ Len(forces[c]) < MaxForces
    /\ forces' = [forces EXCEPT ![c] = AddForceList(@, f)]
    /\ UNCHANGED <<statics, last, evals, earlier, anchorPoint, sim, camera>>

\* c.removeForce(f)
RemoveForce(c, f) ==
    /\ forces' = [forces EXCEPT ![c] = RemoveForceList(@, f)]
    /\ UNCHANGED <<statics, last, evals, earlier, anchorPoint, sim, camera>>

CallAddForce == \E c \in Composites, f \in LeafForces : AddForce(c, f)

CallRemoveForce == \E c \in Composites, f \in LeafForces : RemoveForce(c, f)

NextComposite ==
    \/ CallAddForce
    \/ CallRemoveForce

SpecComposite == InitComposite /\ [][NextComposite]_vars

(***************************************************************************)
(* SpecNested: callers that also register the composite c2 in the          *)
(* composite c1 (never the reverse, and neither in itself).                *)
(***************************************************************************)
\* The longest registration list these callers build.
MaxNested == 2

\* c.addForce(f), f a leaf force or, for c1, the composite c2.
NestAddForce ==
    \E c \in Composites, f \in ForceIds :
        /\ f \in Composites => (c = "c1" /\ f = "c2")
        /\ Len(forces[c]) < MaxNested
        /\ AddForce(c, f)

\* c.removeForce(f)
NestRemoveForce == \E c \in Composites, f \in ForceIds : RemoveForce(c, f)

NextNested ==
    \/ NestAddForce
    \/ NestRemoveForce

SpecNested == InitComposite /\ [][NextNested]_vars

(***************************************************************************)
(* SpecMass: callers that pass a negative mass to the stepping functions.  *)
(***************************************************************************)
MassForces == {"earth", "c2"}
MassStates == {generalizedVector(<<-2, 6, 1>>, <<2, -3, 0>>)}
NegativeMasses == {-Scale, -(2 * Scale)}
MassTimes == {Scale}
MassDeltas == {Scale}

NegativeMassExplicitEuler ==
    /\ StepExplicitEuler(MassForces, MassStates, NegativeMasses, MassTimes,
                         MassDeltas)
    /\ UNCHANGED earlier

NegativeMassSimplecticEuler ==
    /\ StepSimplecticEuler(MassForces, MassStates, NegativeMasses, MassTimes,
                           MassDeltas)
    /\ UNCHANGED earlier

NegativeMassRungeKutta4 ==
    /\ StepRungeKutta4(MassForces, MassStates, NegativeMasses, MassTimes,
                       MassDeltas)
    /\ UNCHANGED earlier

NextMass ==
    \/ NegativeMassExplicitEuler
    \/ NegativeMassSimplecticEuler
    \/ NegativeMassRungeKutta4

SpecMass == Init /\ [][NextMass]_vars

(***************************************************************************)
(* SpecInverse: callers of the electric and the gravitational object.      *)
(***************************************************************************)
InversePositions == {Vec3Zero, <<Scale, 0, 0>>, <<3 * Scale, 4 * Scale, 0>>,
                     <<-2, 1, 5>>, <<0, 0, -1>>}
InverseVelocities == {Vec3Zero, <<2, -2, 1>>}
InverseTimes == {Scale}
InverseAnchors == {Vec3Zero, <<Scale, 0, 0>>}

\* A call of computeForce or computeEnergy that returned ret. position and
\* velocity are bound to const references: after holds the caller's two
\* vectors as the call left them.
Evaluation(op, f, anchor, position, velocity, time, ret) ==
    [op |-> op, f |-> f, anchor |-> anchor, position |-> position,
     velocity |-> velocity, time |-> time, outcome |-> "returned",
     ret |-> ret, after |-> <<position, velocity>>]

\* f.setAnchorPoint(anchor)
SetAnchorPoint(f, anchor) ==
    /\ anchorPoint' = [anchorPoint EXCEPT ![f] = anchor]
    /\ UNCHANGED <<forces, statics, last, evals, earlier, sim, camera>>

CallSetInverseAnchor ==
    \E f \in InverseForces, anchor \in InverseAnchors :
        SetAnchorPoint(f, anchor)

\* f.computeForce(position, velocity, time)
CallInverseForce ==
    \E f \in InverseForces, position \in InversePositions,
       velocity \in InverseVelocities, time \in InverseTimes :
        /\ last' = Evaluation("computeForce", f, anchorPoint[f], position,
                              velocity, time,
                              InverseComputeForce(f, anchorPoint[f], position,
                                                  velocity, time))
        /\ UNCHANGED <<forces, statics, evals, earlier, anchorPoint, sim,
                       camera>>

\* f.computeEnergy(position, velocity, time)
CallInverseEnergy ==
    \E f \in InverseForces, position \in InversePositions,
       velocity \in InverseVelocities, time \in InverseTimes :
        /\ last' = Evaluation("computeEnergy", f, anchorPoint[f], position,
                              velocity, time,
                              InverseComputeEnergy(f, anchorPoint[f], position,
                                                   velocity, time))
        /\ UNCHANGED <<forces, statics, evals, earlier, anchorPoint, sim,
                       camera>>

NextInverse ==
    \/ CallSetInverseAnchor
    \/ CallInverseForce
    \/ CallInverseEnergy

SpecInverse == InitComposite /\ [][NextInverse]_vars

\* Where the callers evaluate a force.
EvalPositions == {<<Scale, 0, 0>>, <<-2, -2, 1>>, <<3, 2 * Scale, -5>>}
EvalVelocities == {Vec3Zero, <<2, -2, 1>>}
EvalTimes == {Scale}

(***************************************************************************)
(* SpecEval: callers that evaluate the objects directly and re-anchor the  *)
(* anchored ones between the evaluations.                                  *)
(***************************************************************************)
ObjectPositions == {<<Scale, 0, 0>>, <<-2, 6, 1>>, <<3, -(2 * Scale), -5>>}
ObjectVelocities == {<<0, Scale, 0>>, <<2, -3, 1>>}
ObjectTimes == {0, Scale}
ObjectAnchors == {Vec3Zero, <<Scale, -2, 0>>}
\* The objects evaluated: one of each concrete class, c1 for the composite.
EvalObjects == LeafForces \cup InverseForces \cup {"c1"}

\* c1 holds the weight and the drag force, c2 nothing; every anchored
\* object has the default anchor.
InitEval ==
    /\ forces = [c \in Composites |->
                    IF c = "c1" THEN <<"earth", "air">> ELSE <<>>]
    /\ statics = StaticsInit
    /\ last = NoCall
    /\ evals = <<>>
    /\ earlier = NoCall
    /\ anchorPoint = AnchorInit
    /\ sim = SimInit
    /\ camera = CameraDefault

\* The fields of the force objects.
Objects == [forces |-> forces, anchorPoint |-> anchorPoint]

\* What a callee that cleared its registration list and moved its anchor
\* would leave behind.
ObjectsAfterEvaluationWritten(objects, f) ==
    [forces |-> [c \in DOMAIN objects.forces |->
                    IF c = f THEN <<>> ELSE objects.forces[c]],
     anchorPoint |-> [a \in DOMAIN objects.anchorPoint |->
                        IF a = f THEN <<Scale, Scale, Scale>>
                        ELSE objects.anchorPoint[a]]]

\* The fields after f.computeForce(...) or f.computeEnergy(...) returned.
\* Both are const member functions: of f and, through const Force*, of the
\* members of a composite; no field is mutable and none is written.
ObjectsAfterEvaluation(objects, f) == objects

\* The anchorPoint field f->computeForce reads; an object without the field
\* reads none.
AnchorOf(f) == IF f \in AnchoredForces THEN anchorPoint[f] ELSE Vec3Zero

\* Virtual dispatch of f->computeForce / f->computeEnergy on any object.
ObjectComputeForce(f, position, velocity, time) ==
    CASE f = "hooke" ->
            HookeComputeForceAt(anchorPoint[f], position, velocity, time)
      [] f \in InverseForces ->
            InverseComputeForce(f, anchorPoint[f], position, velocity, time)
      [] OTHER -> ComputeForce(forces, f, position, velocity, time)
ObjectComputeEnergy(f, position, velocity, time) ==
    CASE f = "hooke" ->
            HookeComputeEnergyAt(anchorPoint[f], position, velocity, time)
      [] f \in InverseForces ->
            InverseComputeEnergy(f, anchorPoint[f], position, velocity, time)
      [] OTHER -> ComputeEnergy(forces, f, position, velocity, time)

\* f.setAnchorPoint(anchor) on any anchored object, recorded as the latest
\* call.
CallSetAnchorPoint ==
    \E f \in AnchoredForces, anchor \in ObjectAnchors :
        /\ anchorPoint' = [anchorPoint EXCEPT ![f] = anchor]
        /\ last' = [op |-> "setAnchorPoint", f |-> f, anchor |-> anchor]
        /\ UNCHANGED <<forces, statics, evals, earlier, sim, camera>>

\* f.computeForce(position, velocity, time), recorded with the fields the
\* objects had as it was called.
CallComputeForce ==
    \E f \in EvalObjects, position \in ObjectPositions,
       velocity \in ObjectVelocities, time \in ObjectTimes :
        /\ last' = Evaluation("computeForce", f, AnchorOf(f), position,
                              velocity, time,
                              ObjectComputeForce(f, position, velocity, time))
                      @@ [before |-> Objects]
        /\ forces' = ObjectsAfterEvaluation(Objects, f).forces
        /\ anchorPoint' = ObjectsAfterEvaluation(Objects, f).anchorPoint
        /\ UNCHANGED <<statics, evals, earlier, sim, camera>>

\* f.computeEnergy(position, velocity, time)
CallComputeEnergy ==
    \E f \in EvalObjects, position \in ObjectPositions,
       velocity \in ObjectVelocities, time \in ObjectTimes :
        /\ last' = Evaluation("computeEnergy", f, AnchorOf(f), position,
                              velocity, time,
                              ObjectComputeEnergy(f, position, velocity, time))
                      @@ [before |-> Objects]
        /\ forces' = ObjectsAfterEvaluation(Objects, f).forces
        /\ anchorPoint' = ObjectsAfterEvaluation(Objects, f).anchorPoint
        /\ UNCHANGED <<statics, evals, earlier, sim, camera>>

NextEval ==
    \/ CallSetAnchorPoint
    \/ CallComputeForce
    \/ CallComputeEnergy

SpecEval == InitEval /\ [][NextEval]_vars

(***************************************************************************)
(* SpecDriver: main's animation loop, one action per statement group.      *)
(***************************************************************************)
\* deltaTime promoted to double, as the loop's comparison and subtraction
\* read it.
DeltaDouble == ToDouble(DriverDeltaTime)

\* The frame times glfwGetTime's differences give: none, fractions of a
\* step, the double just below a step, a step, several steps and a
\* fraction, several steps.
FrameTimes == {0, DeltaDouble \div 3 + 1, DeltaDouble \div 2,
               DeltaDouble - 1, DeltaDouble,
               2 * DeltaDouble + DeltaDouble \div 3 + 1, 4 * DeltaDouble}
\* The run is followed for this many steps' worth of frame time.
MaxFrameSteps == 7
MaxElapsed == MaxFrameSteps * DeltaDouble
\* The keys held down while the loop runs.
DriverKeys == {{}, {"A"}, {"W", "D"}, {"UP", "Y", "LEFT_SHIFT"}}

\* main up to the animation loop: the globals as initialised, accumulator
\* 0.0 and camera = CameraController(glm::vec3(0.0f, 0.0f, 0.0f), 0.0f,
\* 1.0f, 0.025f, 0.05f, 0.001f).
InitDriver ==
    /\ forces = [c \in Composites |-> <<>>]
    /\ statics = StaticsInit
    /\ last = NoCall
    /\ evals = <<>>
    /\ earlier = NoCall
    /\ anchorPoint = AnchorInit
    /\ sim = SimInit
    /\ camera = CameraController(Vec3Zero, Vec3Zero, Lit(1, 1),
                                 Lit(25, 1000), Lit(5, 100), Lit(1, 1000))

\* An inner loop that leaves a whole step in the accumulator.
CatchUpNeededStrict(accumulator) == accumulator > DeltaDouble
\* while (accumulator >= deltaTime)
CatchUpNeeded(accumulator) == accumulator >= DeltaDouble

\* A step that drops what is left of the frame time.
AccumulatorAfterStepReset(accumulator) == 0
\* accumulator -= deltaTime;
AccumulatorAfterStep(accumulator) == DSub(accumulator, DeltaDouble)

\* The head of the loop body: frameTime = currentTime - lastTime;
\* accumulator += frameTime;
FrameBegin ==
    \E frameTime \in FrameTimes :
        /\ ~sim.inFrame
        /\ sim.elapsed + frameTime <= MaxElapsed
        /\ sim' = [sim EXCEPT
                      !.accumulator = DAdd(@, frameTime),
                      !.inFrame = TRUE,
                      !.elapsed = @ + frameTime,
                      !.exact = @ /\ DAdd(sim.accumulator, frameTime)
                                       = sim.accumulator + frameTime]
        /\ UNCHANGED <<forces, statics, last, evals, earlier, anchorPoint,
                       camera>>

\* One iteration of the inner loop: increaseTime(); accumulator -= deltaTime;
CatchUpStep ==
    /\ sim.inFrame
    /\ CatchUpNeeded(sim.accumulator)
    /\ sim' = [increaseTime(sim) EXCEPT
                  !.accumulator = AccumulatorAfterStep(@),
                  !.exact = @ /\ DSub(sim.accumulator, DeltaDouble)
                                   = sim.accumulator - DeltaDouble]
    /\ UNCHANGED <<forces, statics, last, evals, earlier, anchorPoint,
                   camera>>

\* The rest of the loop body once the inner loop is left:
\* camera.moveCamera(window); drawScene(); glfwSwapBuffers; glfwPollEvents.
FrameEnd ==
    \E keys \in DriverKeys :
        /\ sim.inFrame
        /\ ~CatchUpNeeded(sim.accumulator)
        /\ sim' = [sim EXCEPT !.inFrame = FALSE]
        /\ camera' = moveCamera(camera, keys)
        /\ UNCHANGED <<forces, statics, last, evals, earlier, anchorPoint>>

NextDriver ==
    \/ FrameBegin
    \/ CatchUpStep
    \/ FrameEnd

SpecDriver == InitDriver /\ [][NextDriver]_vars

\* The loop's statements are executed one after the other: a statement
\* that can run does run.  The second condition is WF_vars(CatchUpStep)
\* with ENABLED <<CatchUpStep>>_vars written as the guard of the action.
SpecDriverFair ==
    /\ SpecDriver
    /\ WF_vars(FrameEnd)
    /\ \/ []<>(~(sim.inFrame /\ CatchUpNeeded(sim.accumulator)))
       \/ []<><<CatchUpStep>>_vars

(***************************************************************************)
(* SpecCamera: a window whose loop calls moveCamera with any keys held.    *)
(***************************************************************************)
\* The speeds the camera was constructed with.
CameraSpeeds == {Scale}
CameraAngularSpeed == Scale
CameraZoomSpeed == Scale \div 2
\* The sets of keys held during a call: every combination of the four
\* movement keys, alone or with rotation or zoom keys.
MovementKeys == SUBSET {"A", "D", "W", "S"}
OtherKeys == {{}, {"X", "Y", "Z", "LEFT_SHIFT"}, {"UP"},
              {"DOWN", "RIGHT_SHIFT"}}
\* The camera is followed while it stays within one unit of where it
\* started, turned by at most one unit, zoomed between a half and two.
CameraRange == Scale
InCameraRange(cam) ==
    /\ \A i \in 1..3 : /\ Abs(cam.cameraPos[i]) <= CameraRange
                        /\ Abs(cam.angle[i]) <= CameraRange
    /\ cam.zoom * 2 >= CameraRange
    /\ cam.zoom <= 2 * CameraRange

\* camera = CameraController(position, angle, zoom, cameraSpeed,
\*                           angularSpeed, zoomSpeed)
InitCamera ==
    /\ forces = [c \in Composites |-> <<>>]
    /\ statics = StaticsInit
    /\ last = NoCall
    /\ evals = <<>>
    /\ earlier = NoCall
    /\ anchorPoint = AnchorInit
    /\ sim = SimInit
    /\ \E cameraSpeed \in CameraSpeeds :
          camera = CameraController(Vec3Zero, Vec3Zero, Scale, cameraSpeed,
                                    CameraAngularSpeed, CameraZoomSpeed)

\* camera.moveCamera(window) with the keys held; last records them and the
\* camera as the call found it.
CallMoveCamera ==
    \E movement \in MovementKeys, other \in OtherKeys :
        /\ InCameraRange(moveCamera(camera, movement \cup other))
        /\ camera' = moveCamera(camera, movement \cup other)
        /\ last' = [op |-> "moveCamera", keys |-> movement \cup other,
                    before |-> camera]
        /\ UNCHANGED <<forces, statics, evals, earlier, anchorPoint, sim>>

NextCamera == CallMoveCamera

SpecCamera == InitCamera /\ [][NextCamera]_vars

(***************************************************************************)
(* SpecCameraSet: callers of the camera's setters and getters, for each of *)
(* the three versions of the class in the repository.                      *)
(***************************************************************************)
\* The versions of CameraController, named by the file that defines the
\* member functions.
CameraVersions == {"lib/camera.cpp", "src/camera.hpp", "camera.hpp"}
SetAngles == {0, Scale, -(3 * Scale), Scale \div 2}
SetPositions == {Vec3Zero, <<Scale, -2, 0>>}
SetZooms == {Scale, 2 * Scale}

\* CameraController::setAngle(float angle).
\*   lib/camera.cpp:  this->angle.y = angle;
\*   src/camera.hpp:  angle = angle;   the parameter hides the member, so
\*                    the statement assigns the parameter to itself
\*   camera.hpp:      angleY = angle;  the one angle of that version, held
\*                    here as the y component
setAngle(cam, a) ==
    IF cam.version = "src/camera.hpp" THEN cam
    ELSE [cam EXCEPT !.angle[2] = a]

\* CameraController::getAngle(): the vector angle, or in camera.hpp the
\* float angleY.
getAngle(cam) ==
    IF cam.version = "camera.hpp" THEN cam.angle[2] ELSE cam.angle

\* CameraController::setPosition / setZoom
setPosition(cam, pos) == [cam EXCEPT !.cameraPos = pos]
setZoom(cam, zoom) == [cam EXCEPT !.zoom = zoom]

\* A default-constructed camera of one of the versions.
InitCameraSet ==
    /\ forces = [c \in Composites |-> <<>>]
    /\ statics = StaticsInit
    /\ last = NoCall
    /\ evals = <<>>
    /\ earlier = NoCall
    /\ anchorPoint = AnchorInit
    /\ sim = SimInit
    /\ \E version \in CameraVersions :
          camera = CameraDefault @@ [version |-> version]

\* camera.setAngle(a); last records the argument and the camera as the call
\* found it.
CallSetAngle ==
    \E a \in SetAngles :
        /\ camera' = setAngle(camera, a)
        /\ last' = [op |-> "setAngle", a |-> a, before |-> camera]
        /\ UNCHANGED <<forces, statics, evals, earlier, anchorPoint, sim>>

CallSetPosition ==
    \E pos \in SetPositions :
        /\ camera' = setPosition(camera, pos)
        /\ last' = [op |-> "setPosition", a |-> pos, before |-> camera]
        /\ UNCHANGED <<forces, statics, evals, earlier, anchorPoint, sim>>

CallSetZoom ==
    \E zoom \in SetZooms :
        /\ camera' = setZoom(camera, zoom)
        /\ last' = [op |-> "setZoom", a |-> zoom, before |-> camera]
        /\ UNCHANGED <<forces, statics, evals, earlier, anchorPoint, sim>>

NextCameraSet ==
    \/ CallSetAngle
    \/ CallSetPosition
    \/ CallSetZoom

SpecCameraSet == InitCameraSet /\ [][NextCameraSet]_vars

(***************************************************************************)
(* SpecRegistry: callers that add and remove leaf forces on the two        *)
(* composites, with the latest call and the list it found kept in last,    *)
(* and in earlier the number of addForce calls minus the number of         *)
(* removeForce calls that erased an entry, per composite and force.        *)
(***************************************************************************)
NoRegistrations == [c \in Composites |-> [f \in LeafForces |-> 0]]
\* The longest list these callers build: MaxForces on c1, one force on c2.
RegistryCapacity(c) == IF c = "c1" THEN MaxForces ELSE 1

InitRegistry ==
    /\ forces = [c \in Composites |-> <<>>]
    /\ statics = StaticsInit
    /\ last = NoCall
    /\ evals = <<>>
    /\ earlier = [op |-> "registry", net |-> NoRegistrations]
    /\ anchorPoint = AnchorInit
    /\ sim = SimInit
    /\ camera = CameraDefault

\* c.addForce(f)
addForce(c, f) ==
    /\ Len(forces[c]) < RegistryCapacity(c)
    /\ forces' = [forces EXCEPT ![c] = AddForceList(@, f)]
    /\ last' = [op |-> "addForce", c |-> c, f |-> f, before |-> forces[c]]
    /\ earlier' = [earlier EXCEPT !.net[c][f] = @ + 1]
    /\ UNCHANGED <<statics, evals, anchorPoint, sim, camera>>

\* c.removeForce(f); the if branch erases once, at the first entry equal to &force.
removeForce(c, f) ==
    /\ forces' = [forces EXCEPT ![c] = RemoveForceList(@, f)]
    /\ last' = [op |-> "removeForce", c |-> c, f |-> f, before |-> forces[c]]
    /\ earlier' = IF \E i \in 1..Len(forces[c]) : forces[c][i] = f
                  THEN [earlier EXCEPT !.net[c][f] = @ - 1]
                  ELSE earlier
    /\ UNCHANGED <<statics, evals, anchorPoint, sim, camera>>

RegistryAddForce == \E c \in Composites, f \in LeafForces : addForce(c, f)

RegistryRemoveForce == \E c \in Composites, f \in LeafForces : removeForce(c, f)

NextRegistry ==
    \/ RegistryAddForce
    \/ RegistryRemoveForce

SpecRegistry == InitRegistry /\ [][NextRegistry]_vars

(***************************************************************************)
(* SpecRun: the animation loop followed until the float currentTime can no *)
(* longer take up a deltaTime, with frames of half a step, of one step and *)
(* of three steps; the latest increaseTime call is kept in last with the   *)
(* globals it found, and the number of calls so far in earlier.            *)
(***************************************************************************)
RunFrameTimes == {DeltaDouble \div 2, DeltaDouble, 3 * DeltaDouble}
RunKeys == {{}, {"A"}}
\* The run is followed for this many steps: with t0 = 0 the sums
\* n * deltaTime are floats up to n = 16, the 17th is the first that is not.
MaxRunSteps == 18

InitRun ==
    /\ forces = [c \in Composites |-> <<>>]
    /\ statics = StaticsInit
    /\ last = NoCall
    /\ evals = <<>>
    /\ earlier = [op |-> "steps", n |-> 0]
    /\ anchorPoint = AnchorInit
    /\ sim = SimInit
    /\ camera = CameraController(Vec3Zero, Vec3Zero, Lit(1, 1),
                                 Lit(25, 1000), Lit(5, 100), Lit(1, 1000))

\* frameTime = currentTime - lastTime; accumulator += frameTime;
RunFrameBegin ==
    \E frameTime \in RunFrameTimes :
        /\ ~sim.inFrame
        /\ sim.elapsed + frameTime <= MaxRunSteps * DeltaDouble
        /\ sim' = [sim EXCEPT
                      !.accumulator = DAdd(@, frameTime),
                      !.inFrame = TRUE,
                      !.elapsed = @ + frameTime,
                      !.exact = @ /\ DAdd(sim.accumulator, frameTime)
                                       = sim.accumulator + frameTime]
        /\ UNCHANGED <<forces, statics, last, evals, earlier, anchorPoint,
                       camera>>

\* increaseTime(); accumulator -= deltaTime;
RunCatchUpStep ==
    /\ sim.inFrame
    /\ CatchUpNeeded(sim.accumulator)
    /\ sim' = [increaseTime(sim) EXCEPT
                  !.accumulator = AccumulatorAfterStep(@),
                  !.exact = @ /\ DSub(sim.accumulator, DeltaDouble)
                                   = sim.accumulator - DeltaDouble]
    /\ last' = [op |-> "increaseTime", before |-> sim]
    /\ earlier' = [earlier EXCEPT !.n = @ + 1]
    /\ UNCHANGED <<forces, statics, evals, anchorPoint, camera>>

\* camera.moveCamera(window); drawScene(); glfwSwapBuffers; glfwPollEvents.
RunFrameEnd ==
    \E keys \in RunKeys :
        /\ sim.inFrame
        /\ ~CatchUpNeeded(sim.accumulator)
        /\ sim' = [sim EXCEPT !.inFrame = FALSE]
        /\ camera' = moveCamera(camera, keys)
        /\ UNCHANGED <<forces, statics, last, evals, earlier, anchorPoint>>

NextRun ==
    \/ RunFrameBegin
    \/ RunCatchUpStep
    \/ RunFrameEnd

SpecRun == InitRun /\ [][NextRun]_vars

(***************************************************************************)
(* SpecRecursion: callers that register leaf forces and composites in the  *)
(* two composites, a composite in itself included, and evaluate a          *)
(* composite.  The evaluation is followed statement by statement: last     *)
(* holds the call with its stack of range-for loops in progress, one frame *)
(* per nested computeForce (computeEnergy) call, and evals the entries the *)
(* loops have reached so far.                                              *)
(***************************************************************************)
\* The deepest nesting of calls followed; a call that would go deeper
\* stands for the recursion that goes on until the stack is exhausted.
MaxDepth == 3

Evaluations == {"computeForce", "computeEnergy"}
\* The forces these callers register and the point they evaluate at.
RecForces == {"hooke", "air"} \cup Composites
RecPositions == {<<3, 2 * Scale, -5>>}
RecVelocities == {<<2, -2, 1>>}

\* glm::vec3 totalForce(0.0f) / float totalEnergy = 0.0f: a call has the
\* one or the other, the record keeps a slot for each.
ZeroTotal == [force |-> Vec3Zero, energy |-> 0]
\* totalForce += ... / totalEnergy += ...
Accumulate(op, total, term) ==
    IF op = "computeForce"
    THEN [total EXCEPT !.force = VAdd(@, term.force)]
    ELSE [total EXCEPT !.energy = FAdd(@, term.energy)]
\* The virtual call on a leaf force.
LeafEvaluate(op, f, position, velocity, time) ==
    IF op = "computeForce"
    THEN [force |-> LeafComputeForce(f, position, velocity, time),
          energy |-> 0]
    ELSE [force |-> Vec3Zero,
          energy |-> LeafComputeEnergy(f, position, velocity, time)]

\* The frame of a call on composite c that has just been entered.
LoopFrame(c) == [c |-> c, i |-> 1, total |-> ZeroTotal]

\* A loop body that would take a composite entry for no force.
LoopBodyLeavesOnly(fs, call) ==
    LET depth == Len(call.stack)
        top == call.stack[depth]
        entry == fs[top.c][top.i]
    IN  IF entry \in Composites
        THEN [call EXCEPT !.stack[depth].i = @ + 1]
        ELSE [call EXCEPT
                 !.stack[depth].total =
                     Accumulate(call.op, @,
                                LeafEvaluate(call.op, entry, call.position,
                                             call.velocity, call.time)),
                 !.stack[depth].i = @ + 1]

\* The body of the range-for for the entry the innermost loop is at:
\* total += force->compute...(position, velocity, time).  A leaf entry is
\* evaluated and added; a composite entry starts a nested call.
LoopBody(fs, call) ==
    LET depth == Len(call.stack)
        top == call.stack[depth]
        entry == fs[top.c][top.i]
    IN  IF entry \in Composites
        THEN IF depth >= MaxDepth
             THEN [call EXCEPT !.status = "overflow"]
             ELSE [call EXCEPT !.stack = Append(@, LoopFrame(entry))]
        ELSE [call EXCEPT
                 !.stack[depth].total =
                     Accumulate(call.op, @,
                                LeafEvaluate(call.op, entry, call.position,
                                             call.velocity, call.time)),
                 !.stack[depth].i = @ + 1]

\* return total: the outermost call hands its total to the caller, a nested
\* call to the += of the loop that made it.
LoopReturn(call) ==
    LET depth == Len(call.stack)
        top == call.stack[depth]
    IN  IF depth = 1
        THEN [call EXCEPT !.status = "done", !.ret = top.total,
                          !.stack = <<>>]
        ELSE [call EXCEPT
                 !.stack = SubSeq(@, 1, depth - 2) \o
                     <<[@[depth - 1] EXCEPT
                          !.total = Accumulate(call.op, @, top.total),
                          !.i = @ + 1]>>]

Running == last.op \in Evaluations /\ last.status = "running"
Finished == last.op \in Evaluations /\ last.status = "done"

\* c.addForce(f), f any force, c itself included.
RecAddForce ==
    \E c \in Composites, f \in RecForces :
        /\ last = NoCall
        /\ Len(forces[c]) < MaxNested
        /\ AddForce(c, f)

\* c.removeForce(f)
RecRemoveForce ==
    \E c \in Composites, f \in RecForces :
        /\ last = NoCall
        /\ RemoveForce(c, f)

\* root.computeForce(position, velocity, time) or computeEnergy is called.
BeginEvaluation ==
    \E root \in Composites, op \in Evaluations,
       position \in RecPositions, velocity \in RecVelocities,
       time \in EvalTimes :
        /\ last = NoCall
        /\ last' = [op |-> op, root |-> root, position |-> position,
                    velocity |-> velocity, time |-> time,
                    stack |-> <<LoopFrame(root)>>,
                    status |-> "running", ret |-> ZeroTotal]
        /\ evals' = <<>>
        /\ UNCHANGED <<forces, statics, earlier, anchorPoint, sim, camera>>

\* The innermost loop has an entry left: its body runs.
EvaluateEntry ==
    /\ Running
    /\ LET top == last.stack[Len(last.stack)]
       IN  /\ top.i <= Len(forces[top.c])
           /\ evals' = Append(evals, [c |-> top.c, i |-> top.i,
                                      f |-> forces[top.c][top.i]])
    /\ last' = LoopBody(forces, last)
    /\ UNCHANGED <<forces, statics, earlier, anchorPoint, sim, camera>>

\* The innermost loop has no entry left: the call returns.
ReturnTotal ==
    /\ Running
    /\ LET top == last.stack[Len(last.stack)]
       IN  top.i > Len(forces[top.c])
    /\ last' = LoopReturn(last)
    /\ UNCHANGED <<forces, statics, evals, earlier, anchorPoint, sim,
                   camera>>

\* The caller has taken the result.
EvaluationUsed ==
    /\ Finished
    /\ last' = NoCall
    /\ evals' = <<>>
    /\ UNCHANGED <<forces, statics, earlier, anchorPoint, sim, camera>>

NextRecursion ==
    \/ RecAddForce
    \/ RecRemoveForce
    \/ BeginEvaluation
    \/ EvaluateEntry
    \/ ReturnTotal
    \/ EvaluationUsed

SpecRecursion == InitComposite /\ [][NextRecursion]_vars

\* A call in progress executes its next statement: weak fairness of the
\* two statement actions, with ENABLED written as their common guard.
SpecRecursionFair ==
    /\ SpecRecursion
    /\ \/ []<>(~Running)
       \/ []<><<EvaluateEntry \/ ReturnTotal>>_vars

(***************************************************************************)
(* Properties.                                                             *)
(***************************************************************************)
\* The force at the state and time the latest call was given.
ForceAtCall ==
    ComputeForce(forces, last.f, last.state.position, last.state.velocity,
                 last.t)

\* C1: after every call of rungeKutta4, the first and every later one,
\* stage k0 is (vel, F(pos, vel, t)/mass): its slope of the position is the
\* velocity the call was given and its acceleration is the force at the
\* position, velocity and time the call was given, divided by the mass.
C1_StageZeroAtCallState ==
    last.op = "rungeKutta4" =>
        /\ statics.kx[1] = last.state.velocity
        /\ statics.kv[1] = VDivS(ForceAtCall, last.mass)

SameArguments(a, b) ==
    /\ a.op = b.op
    /\ a.f = b.f
    /\ a.state = b.state
    /\ a.mass = b.mass
    /\ a.t = b.t
    /\ a.dt = b.dt

\* C2: the stepping functions carry no state across calls: whenever the
\* latest call has the function and the arguments (force, state, mass, t, dt)
\* of an earlier call, it returns the state the earlier call returned,
\* whatever was called in between.
C2_EqualArgumentsEqualResults ==
    (earlier.op # "none" /\ last.op # "none" /\ SameArguments(earlier, last))
        => last.ret = earlier.ret

\* C3: simplecticEuler returns vel' = vel + (F(pos, vel, t)/mass)*dt and
\* pos' = pos + vel'*dt, the position advanced by the velocity it returns.
C3_SimplecticVelocityFirst ==
    last.op = "simplecticEuler" =>
        /\ last.ret.velocity =
              VAdd(last.state.velocity,
                   VMulS(VDivS(ForceAtCall, last.mass), last.dt))
        /\ last.ret.position =
              VAdd(last.state.position, VMulS(last.ret.velocity, last.dt))

\* A simplecticEuler call whose force changed the velocity, and whose
\* position is not the one the pre-step velocity gives.
C3_Witness ==
    /\ last.op = "simplecticEuler"
    /\ last.ret.velocity # last.state.velocity
    /\ last.ret.position #
          VAdd(last.state.position, VMulS(last.state.velocity, last.dt))

\* C4: explicitEuler returns pos' = pos + vel*dt and
\* vel' = vel + (F(pos, vel, t)/mass)*dt, both from the velocity and the
\* force before the step, for positive and negative dt.
C4_ExplicitPreStepValues ==
    last.op = "explicitEuler" =>
        /\ last.ret.position =
              VAdd(last.state.position, VMulS(last.state.velocity, last.dt))
        /\ last.ret.velocity =
              VAdd(last.state.velocity,
                   VMulS(VDivS(ForceAtCall, last.mass), last.dt))

\* An explicitEuler call with a negative dt whose force changed the velocity,
\* and whose position is not the one the updated velocity gives.
C4_Witness ==
    /\ last.op = "explicitEuler"
    /\ last.dt < 0
    /\ last.ret.velocity # last.state.velocity
    /\ last.ret.position #
          VAdd(last.state.position, VMulS(last.ret.velocity, last.dt))

\* The states explicitEuler and simplecticEuler return for the arguments of
\* the latest call: the one that call returned, and the other function's.
ExplicitResult ==
    IF last.op = "explicitEuler" THEN last.ret
    ELSE explicitEuler(forces, last.f, last.state, last.mass, last.t, last.dt)
SimplecticResult ==
    IF last.op = "simplecticEuler" THEN last.ret
    ELSE simplecticEuler(forces, last.f, last.state, last.mass, last.t, last.dt)

\* (F/mass)*dt*dt for the arguments of the latest call.
PositionGap == VMulS(VMulS(VDivS(ForceAtCall, last.mass), last.dt), last.dt)

\* C5 as stated: for the same state, mass, t and dt, under the force that is
\* zero everywhere (the empty composite c1) both Euler steps return
\* (pos + vel*dt, vel); under the non-zero constant force (earth) with
\* dt # 0 they return the same velocity and different positions, the
\* semi-implicit one being the explicit one plus (F/mass)*dt*dt.
C5_ZeroSameConstantDiffer ==
    last.op \in {"explicitEuler", "simplecticEuler"} =>
        /\ last.f = "c1" =>
              /\ ExplicitResult = SimplecticResult
              /\ ExplicitResult =
                    generalizedVector(
                        VAdd(last.state.position,
                             VMulS(last.state.velocity, last.dt)),
                        last.state.velocity)
        /\ (last.f = "earth" /\ last.dt # 0) =>
              /\ ExplicitResult.velocity = SimplecticResult.velocity
              /\ ExplicitResult.position # SimplecticResult.position
              /\ SimplecticResult.position =
                    VAdd(ExplicitResult.position, PositionGap)

\* C5 as amended: under the zero force both Euler steps return
\* (pos + vel*dt, vel); under the non-zero constant force with dt # 0 they
\* return the same velocity vel' = vel + (F/mass)*dt, the explicit position
\* is pos + vel*dt and the semi-implicit position is pos + vel'*dt, each as
\* float arithmetic rounds it (so the two positions need not differ, nor
\* differ by exactly (F/mass)*dt*dt).
C5_ZeroSameConstantByVelocityUsed ==
    last.op \in {"explicitEuler", "simplecticEuler"} =>
        /\ last.f = "c1" =>
              /\ ExplicitResult = SimplecticResult
              /\ ExplicitResult =
                    generalizedVector(
                        VAdd(last.state.position,
                             VMulS(last.state.velocity, last.dt)),
                        last.state.velocity)
        /\ (last.f = "earth" /\ last.dt # 0) =>
              /\ ExplicitResult.velocity = SimplecticResult.velocity
              /\ ExplicitResult.velocity =
                    VAdd(last.state.velocity,
                         VMulS(VDivS(ForceAtCall, last.mass), last.dt))
              /\ ExplicitResult.position =
                    VAdd(last.state.position,
                         VMulS(last.state.velocity, last.dt))
              /\ SimplecticResult.position =
                    VAdd(last.state.position,
                         VMulS(SimplecticResult.velocity, last.dt))

\* A step under the constant force where the two positions differ.
C5_Witness ==
    /\ last.op = "simplecticEuler"
    /\ last.f = "earth"
    /\ last.dt # 0
    /\ ForceAtCall # Vec3Zero
    /\ ExplicitResult.position # SimplecticResult.position

\* A step under the constant force where the two positions are the same.
C5_SamePositionReached ==
    /\ last.op = "simplecticEuler"
    /\ last.f = "earth"
    /\ last.dt # 0
    /\ ForceAtCall # Vec3Zero
    /\ ExplicitResult.position = SimplecticResult.position

\* The sub-step of stage i of the latest rungeKutta4 call: dt/2 for k1 and
\* k2, dt for k3 (stage i is kx[i-1], kv[i-1] of the code).
StageStep(i) == IF i = 4 THEN last.dt ELSE FDiv(last.dt, Lit(2, 1))

\* C6: after a call of rungeKutta4, each of the stages k1, k2, k3 is built
\* from the stage before it: k_i.x = vel + k_{i-1}.v*h and
\* k_i.v = F(pos + k_{i-1}.x*h, vel + k_{i-1}.v*h, t + h)/mass, with h = dt/2
\* for k1 and k2 and h = dt for k3; the last three force evaluations of the
\* call were made with those positions, velocities and times.
C6_StagesFromPreviousSlope ==
    last.op = "rungeKutta4" =>
        \A i \in 2..4 :
            LET h == StageStep(i)
                pos == VAdd(last.state.position, VMulS(statics.kx[i - 1], h))
                vel == VAdd(last.state.velocity, VMulS(statics.kv[i - 1], h))
                time == FAdd(last.t, h)
            IN  /\ statics.kx[i] = vel
                /\ statics.kv[i] =
                      VDivS(ComputeForce(forces, last.f, pos, vel, time),
                            last.mass)
                /\ evals[Len(evals) - 4 + i] =
                      [position |-> pos, velocity |-> vel, time |-> time]

\* A rungeKutta4 call, not the first, whose four stages all differ.
C6_Witness ==
    /\ last.op = "rungeKutta4"
    /\ Len(evals) = 3
    /\ \A i, j \in 1..4 :
          i # j => (statics.kx[i] # statics.kx[j] /\ statics.kv[i] # statics.kv[j])

\* C7: rungeKutta4 returns pos' = pos + dt/6*(k0.x + 2*k1.x + 2*k2.x + k3.x)
\* and vel' = vel + dt/6*(k0.v + 2*k1.v + 2*k2.v + k3.v), the k being the
\* stage slopes kx, kv that call computed.
C7_WeightedSumOfStages ==
    last.op = "rungeKutta4" =>
        LET sixth == FDiv(last.dt, Lit(6, 1))
            two == Lit(2, 1)
            Sum(k) == VAdd(VAdd(VAdd(k[1], VMulS(k[2], two)),
                                VMulS(k[3], two)),
                           k[4])
        IN  /\ last.ret.position =
                  VAdd(last.state.position, VMulS(Sum(statics.kx), sixth))
            /\ last.ret.velocity =
                  VAdd(last.state.velocity, VMulS(Sum(statics.kv), sixth))

\* A rungeKutta4 call that moved the position and the velocity, and whose
\* result is not the one equal weights give.
C7_Witness ==
    /\ last.op = "rungeKutta4"
    /\ last.ret.position # last.state.position
    /\ last.ret.velocity # last.state.velocity
    /\ last.ret.position #
          rk4CombineUnweighted(last.state.position, last.dt, statics.kx)
    /\ last.ret.velocity #
          rk4CombineUnweighted(last.state.velocity, last.dt, statics.kv)

\* Each registered force of composite c evaluated on its own at one
\* position, velocity and time, in the order of fs[c].
MemberForces(fs, c, p, v, t) ==
    [i \in 1..Len(fs[c]) |-> LeafComputeForce(fs[c][i], p, v, t)]
MemberEnergies(fs, c, p, v, t) ==
    [i \in 1..Len(fs[c]) |-> LeafComputeEnergy(fs[c][i], p, v, t)]

\* The sum of a sequence of vectors, of numbers, taken from the left.
RECURSIVE VSum(_)
VSum(seq) ==
    IF seq = <<>> THEN Vec3Zero
    ELSE VAdd(VSum(SubSeq(seq, 1, Len(seq) - 1)), seq[Len(seq)])
RECURSIVE FSum(_)
FSum(seq) ==
    IF seq = <<>> THEN 0
    ELSE FAdd(FSum(SubSeq(seq, 1, Len(seq) - 1)), seq[Len(seq)])

\* C8: at every position, velocity and time a composite's computeForce
\* (computeEnergy) is the sum of its registered forces' own evaluations
\* there: the float sum of the two with two registered, the zero vector
\* (energy 0) with none.
C8_CompositeIsSumOfMembers ==
    \A c \in Composites, p \in EvalPositions, v \in EvalVelocities,
       t \in EvalTimes :
        LET mf == MemberForces(forces, c, p, v, t)
            me == MemberEnergies(forces, c, p, v, t)
            force == ComputeForce(forces, c, p, v, t)
            energy == ComputeEnergy(forces, c, p, v, t)
        IN  /\ force = VSum(mf)
            /\ energy = FSum(me)
            /\ Len(forces[c]) = 2 =>
                  (force = VAdd(mf[1], mf[2]) /\ energy = FAdd(me[1], me[2]))
            /\ Len(forces[c]) = 0 => (force = Vec3Zero /\ energy = 0)

\* A composite of two different forces, evaluated where both are non-zero
\* and the total is neither of them.
C8_Witness ==
    \E c \in Composites, p \in EvalPositions, v \in EvalVelocities,
       t \in EvalTimes :
        LET mf == MemberForces(forces, c, p, v, t)
        IN  /\ Len(forces[c]) = 2
            /\ forces[c][1] # forces[c][2]
            /\ mf[1] # Vec3Zero
            /\ mf[2] # Vec3Zero
            /\ ComputeForce(forces, c, p, v, t) \notin {mf[1], mf[2], Vec3Zero}

\* The entries of a list other than f, in order.
Others(list, f) == SelectSeq(list, LAMBDA e : e # f)

\* C9: whatever addForce and removeForce calls came before, once
\* c.removeForce(f) has returned, c's computeForce and computeEnergy are the
\* sums over the registered forces other than f.
C9_RemovedForceExcluded ==
    [][\A c \in Composites, f \in LeafForces :
          RemoveForce(c, f) =>
              \A p \in EvalPositions, v \in EvalVelocities, t \in EvalTimes :
                  LET rest == [forces EXCEPT ![c] = Others(forces[c], f)]
                  IN  /\ ComputeForce(forces', c, p, v, t) =
                            VSum(MemberForces(rest, c, p, v, t))
                      /\ ComputeEnergy(forces', c, p, v, t) =
                            FSum(MemberEnergies(rest, c, p, v, t))]_vars

\* How many entries of a list are f.
Count(list, f) == Cardinality({i \in 1..Len(list) : list[i] = f})

\* Two lists hold the same forces, each as many times.
SameForces(l1, l2) == \A f \in ForceIds : Count(l1, f) = Count(l2, f)

SameEvaluation(c, d) ==
    \A p \in EvalPositions, v \in EvalVelocities, t \in EvalTimes :
        /\ ComputeForce(forces, c, p, v, t) = ComputeForce(forces, d, p, v, t)
        /\ ComputeEnergy(forces, c, p, v, t) = ComputeEnergy(forces, d, p, v, t)

\* C10 as stated: two composites that hold the same forces, registered in
\* whatever orders, return the same computeForce and computeEnergy at every
\* position, velocity and time.
C10_OrderIndependent ==
    \A c, d \in Composites :
        SameForces(forces[c], forces[d]) => SameEvaluation(c, d)

\* C10 as amended: two composites that hold the same forces, at most two
\* each, return the same computeForce and computeEnergy at every position,
\* velocity and time (with three or more the float sums can differ by
\* rounding, addition of floats not being associative).
C10_OrderIndependentUpToTwo ==
    \A c, d \in Composites :
        (SameForces(forces[c], forces[d]) /\ Len(forces[c]) <= 2)
            => SameEvaluation(c, d)

\* The two composites hold the same two forces in opposite orders, and their
\* total is non-zero somewhere.
C10_Witness ==
    /\ Len(forces["c1"]) = 2
    /\ forces["c1"][1] # forces["c1"][2]
    /\ forces["c2"] = <<forces["c1"][2], forces["c1"][1]>>
    /\ \E p \in EvalPositions, v \in EvalVelocities, t \in EvalTimes :
          /\ ComputeForce(forces, "c1", p, v, t) # Vec3Zero
          /\ LeafComputeForce(forces["c1"][1], p, v, t)
                # LeafComputeForce(forces["c1"][2], p, v, t)
\* The leaf forces a list reaches, in evaluation order: a composite entry
\* stands for the entries of its own list.
RECURSIVE Flatten(_, _)
Flatten(fs, list) ==
    IF list = <<>> THEN <<>>
    ELSE (IF Head(list) \in Composites
          THEN Flatten(fs, fs[Head(list)])
          ELSE <<Head(list)>>) \o Flatten(fs, Tail(list))

\* Composite c returns what a composite registered with list flat would.
SameAsFlat(c, flat) ==
    \A p \in EvalPositions, v \in EvalVelocities, t \in EvalTimes :
        /\ CompositeComputeForce(forces, c, p, v, t) =
              CompositeForceLoop(forces, flat, Len(flat), p, v, t)
        /\ CompositeComputeEnergy(forces, c, p, v, t) =
              CompositeEnergyLoop(forces, flat, Len(flat), p, v, t)

\* A composite member of c contributes the sum of its own members.
NestedContributesOwnSum(c) ==
    \A i \in 1..Len(forces[c]) :
        forces[c][i] \in Composites =>
            \A p \in EvalPositions, v \in EvalVelocities, t \in EvalTimes :
                /\ ComputeForce(forces, forces[c][i], p, v, t) =
                      VSum(MemberForces(forces, forces[c][i], p, v, t))
                /\ ComputeEnergy(forces, forces[c][i], p, v, t) =
                      FSum(MemberEnergies(forces, forces[c][i], p, v, t))

NestedFirstOrSingle(fs, list) ==
    \A i \in 1..Len(list) :
        list[i] \in Composites =>
            (i = 1 \/ Len(Flatten(fs, fs[list[i]])) <= 1)

NotFinite(x) == x.class # "finite"
ReturnedNotFinite ==
    IF last.op = "computeForce"
    THEN \E i \in 1..3 : NotFinite(last.ret[i])
    ELSE NotFinite(last.ret)

\* C12: computeForce and computeEnergy of the electric and the gravitational
\* object called with position equal to the anchor end in a
\* SingularityError, and the call does not return NaN or an infinity.
C12_SingularityErrorAtAnchor ==
    (/\ last.op \in {"computeForce", "computeEnergy"}
     /\ last.f \in InverseForces
     /\ last.position = last.anchor)
        => (last.outcome = "SingularityError" /\ ~ReturnedNotFinite)

\* What the code does there instead: computeForce returns the vector
\* (NaN, NaN, NaN) and computeEnergy an infinity of the coupling's sign.
C12_ReturnsNaNAtAnchor ==
    (/\ last.op \in {"computeForce", "computeEnergy"}
     /\ last.f \in InverseForces
     /\ last.position = last.anchor)
        => /\ last.outcome = "returned"
           /\ last.op = "computeForce" => last.ret = <<NaN, NaN, NaN>>
           /\ last.op = "computeEnergy" =>
                 last.ret = Infinity(IF last.f = "electric" THEN 1 ELSE -1)
SteppingFunctions == {"explicitEuler", "simplecticEuler", "rungeKutta4"}

\* C13: a stepping function called with mass <= 0 rejects the call with an
\* InvalidMassError before stepping: it evaluates no force and returns no
\* next state.
C13_NonPositiveMassRejected ==
    (last.op \in SteppingFunctions /\ last.mass <= 0)
        => /\ evals = <<>>
           /\ DOMAIN last.ret # {"position", "velocity"}

\* What the code does instead: it evaluates the force at the state it was
\* given and returns a next state, the acceleration taken with the
\* negative mass.
C13_NegativeMassSteps ==
    (last.op \in SteppingFunctions /\ last.mass <= 0)
        => /\ evals # <<>>
           /\ DOMAIN last.ret = {"position", "velocity"}
           /\ last.op = "explicitEuler" =>
                 last.ret.velocity =
                     VAdd(last.state.velocity,
                          VMulS(VDivS(ForceAtCall, last.mass), last.dt))

\* C14: a call of computeForce or computeEnergy, on an object of any class,
\* changes nothing but its return value: the registration list of every
\* composite, the anchor of every anchored object and the position and the
\* velocity the caller passed are after the call what they were before it
\* (the other parameters of the objects are fixed at construction).
C14_EvaluationHasNoSideEffect ==
    last.op \in {"computeForce", "computeEnergy"}
        => /\ forces = last.before.forces
           /\ anchorPoint = last.before.anchorPoint
           /\ last.after = <<last.position, last.velocity>>

\* A composite with two members and a re-anchored spring have been
\* evaluated, to a force or an energy that is not zero.
C14_Witness ==
    /\ last.op \in {"computeForce", "computeEnergy"}
    /\ last.f \in {"c1", "hooke"}
    /\ last.f = "c1" => Len(forces["c1"]) = 2
    /\ last.f = "hooke" =>
          anchorPoint["hooke"] # Vec3Zero /\ last.anchor = anchorPoint["hooke"]
    /\ last.op = "computeForce" => last.ret # Vec3Zero
    /\ last.op = "computeEnergy" => last.ret # 0

\* The values of the table of linear forces, each operation a float
\* operation: m, k and c the parameters given at construction, anchor the
\* spring's anchor.
SquaredNorm(d) ==
    FAdd(FAdd(FMul(d[1], d[1]), FMul(d[2], d[2])), FMul(d[3], d[3]))
TabulatedForce(f, position, velocity, anchor) ==
    CASE f = "earth" -> <<0, FMul(-EarthMass, g), 0>>
      [] f = "hooke" -> <<FMul(-HookeK, FSub(position[1], anchor[1])),
                          FMul(-HookeK, FSub(position[2], anchor[2])),
                          FMul(-HookeK, FSub(position[3], anchor[3]))>>
      [] f = "air"   -> <<FMul(-AirDrag, velocity[1]),
                          FMul(-AirDrag, velocity[2]),
                          FMul(-AirDrag, velocity[3])>>
TabulatedEnergy(f, position, velocity, anchor) ==
    CASE f = "earth" -> FMul(FMul(EarthMass, g), position[2])
      [] f = "hooke" ->
            FMul(FMul(Lit(1, 2), HookeK),
                 SquaredNorm(<<FSub(position[1], anchor[1]),
                               FSub(position[2], anchor[2]),
                               FSub(position[3], anchor[3])>>))
      [] f = "air"   -> FMul(FMul(Lit(1, 2), AirDrag), SquaredNorm(velocity))

\* C15: an evaluation of the Earth, the Hooke or the AirResistance object
\* returns the value of the table for the arguments the table mentions,
\* whatever the other arguments are: the force (0, -m*g, 0), -k*(position -
\* anchor), -c*velocity and the energy m*g*position.y,
\* 0.5*k*|position - anchor|^2, 0.5*c*|velocity|^2, with the anchor the
\* spring was constructed with or the one the latest setAnchorPoint gave it.
C15_LinearForcesAsTabulated ==
    (last.op \in {"computeForce", "computeEnergy"} /\ last.f \in LeafForces)
        => IF last.op = "computeForce"
           THEN last.ret = TabulatedForce(last.f, last.position,
                                          last.velocity, anchorPoint["hooke"])
           ELSE last.ret = TabulatedEnergy(last.f, last.position,
                                           last.velocity, anchorPoint["hooke"])

\* The spring has been evaluated after setAnchorPoint moved its anchor, at
\* a position where the moved anchor changes the force.
C15_Witness ==
    /\ last.op = "computeForce"
    /\ last.f = "hooke"
    /\ anchorPoint["hooke"] # HookeAnchor
    /\ last.ret # Vec3Zero
    /\ last.ret # TabulatedForce("hooke", last.position, last.velocity,
                                 HookeAnchor)

\* The capacity of the trajectory buffer, scaled to the length of the runs
\* followed here (the reference behaviour's is 10,000 samples).
TrajectoryCapacity == 3

\* C16: the trajectory never holds more samples than the capacity; the
\* oldest are discarded, so it holds the most recent positions.
C16_TrajectoryBounded == Len(sim.trajectory) <= TrajectoryCapacity

\* What the code does instead: every step appends and nothing is ever
\* removed, so the buffer holds the position before each step taken since
\* the program started, the first sample always the initial position.
C16_TrajectoryKeepsEverything ==
    /\ sim.trajectory # <<>> => sim.trajectory[1] = DriverPos
    /\ sim.currentTime < MantLimit =>
          sim.currentTime = Len(sim.trajectory) * DriverDeltaTime

\* C17: a frame adds its frame time to the accumulator; a step is taken
\* only while accumulator >= deltaTime and takes deltaTime off it; the
\* inner loop ends, and between frames 0 <= accumulator < deltaTime.
C17_AccumulatorExhausted ==
    /\ [](~sim.inFrame => (0 <= sim.accumulator
                            /\ sim.accumulator < DeltaDouble))
    /\ [][(~sim.inFrame /\ sim'.inFrame) =>
             (\E frameTime \in FrameTimes :
                 sim'.accumulator = DAdd(sim.accumulator, frameTime))]_vars
    /\ [][Len(sim'.trajectory) # Len(sim.trajectory) =>
             (/\ sim.accumulator >= DeltaDouble
              /\ Len(sim'.trajectory) = Len(sim.trajectory) + 1
              /\ sim'.accumulator = DSub(sim.accumulator, DeltaDouble)
              /\ sim'.accumulator < sim.accumulator
              /\ sim'.accumulator >= 0)]_vars
    /\ (sim.inFrame ~> ~sim.inFrame)

\* A frame that needed several steps has ended with part of a step left in
\* the accumulator.
C17_Witness ==
    /\ ~sim.inFrame
    /\ Len(sim.trajectory) >= 3
    /\ sim.accumulator > 0
    /\ sim.elapsed >= 3 * DeltaDouble

\* The globals after n calls of increaseTime.
RECURSIVE StateAfterSteps(_)
StateAfterSteps(n) ==
    IF n = 0 THEN SimInit ELSE increaseTime(StateAfterSteps(n - 1))

\* The simulated position, velocity and time are those n steps give.
SimulatedAsAfter(n) ==
    /\ sim.currentPos = StateAfterSteps(n).currentPos
    /\ sim.currentVel = StateAfterSteps(n).currentVel
    /\ sim.currentTime = StateAfterSteps(n).currentTime

\* C18: between frames the number of steps taken so far is
\* floor(total / deltaTime), total the sum of the frame times so far
\* however it was split into frames, and the simulated position, velocity
\* and time are those that many steps give.
C18_StepsFloorOfTotal ==
    ~sim.inFrame =>
        /\ Len(sim.trajectory) = sim.elapsed \div DeltaDouble
        /\ SimulatedAsAfter(sim.elapsed \div DeltaDouble)

\* What holds of the code: the simulated position, velocity and time are
\* those of the number of steps taken, and that number is
\* floor(total / deltaTime) as long as no addition to the accumulator and no
\* subtraction from it was rounded.
C18_StepsFloorOfTotalWhenExact ==
    /\ SimulatedAsAfter(Len(sim.trajectory))
    /\ (~sim.inFrame /\ sim.exact) =>
          Len(sim.trajectory) = sim.elapsed \div DeltaDouble

\* Several frames, none of them a whole number of steps, have added up
\* without rounding to more than two steps.
C18_Witness ==
    /\ ~sim.inFrame
    /\ sim.exact
    /\ sim.elapsed \notin FrameTimes
    /\ sim.elapsed % DeltaDouble # 0
    /\ Len(sim.trajectory) >= 2

\* The direction a pair of keys gives: 1 for the first alone, -1 for the
\* second alone, 0 for both or neither.
PairDirection(keys, plus, minus) ==
    IF plus \in keys /\ minus \notin keys THEN 1
    ELSE IF minus \in keys /\ plus \notin keys THEN -1
    ELSE 0
\* The displacement of a call: cameraSpeed, or the float product
\* cameraSpeed * 0.7071 when the camera moves on both axes.
Displacement(cam, keys) ==
    IF PairDirection(keys, "A", "D") # 0 /\ PairDirection(keys, "S", "W") # 0
    THEN FMul(cam.cameraSpeed, Lit(7071, 10000))
    ELSE cam.cameraSpeed

\* C20: moveCamera moves the camera along x by +displacement for A alone
\* and -displacement for D alone, along y by +displacement for S alone
\* and -displacement for W alone, and leaves an axis where both or neither
\* key of the pair is pressed; the displacement is cameraSpeed, or
\* cameraSpeed * 0.7071 when the call moves the camera on both axes.  The
\* z coordinate and the speed are not changed.
C20_MoveCameraAxes ==
    last.op = "moveCamera" =>
        /\ camera.cameraPos[1] =
              FAdd(last.before.cameraPos[1],
                   PairDirection(last.keys, "A", "D")
                       * Displacement(last.before, last.keys))
        /\ camera.cameraPos[2] =
              FAdd(last.before.cameraPos[2],
                   PairDirection(last.keys, "S", "W")
                       * Displacement(last.before, last.keys))
        /\ camera.cameraPos[3] = last.before.cameraPos[3]
        /\ camera.cameraSpeed = last.before.cameraSpeed

\* The camera has moved diagonally, by less than its speed on each axis,
\* in a call with A and W held and neither D nor S.
C20_Witness ==
    /\ last.op = "moveCamera"
    /\ {"A", "W"} \subseteq last.keys
    /\ last.keys \cap {"D", "S"} = {}
    /\ camera.cameraPos[1] > last.before.cameraPos[1]
    /\ camera.cameraPos[2] < last.before.cameraPos[2]
    /\ camera.cameraPos[1] - last.before.cameraPos[1] < camera.cameraSpeed

\* The rotation about the Y axis that getAngle() reports.
ReportedAngleY(cam) ==
    IF cam.version = "camera.hpp" THEN getAngle(cam) ELSE getAngle(cam)[2]

\* C21: in every version, after setAngle(a) getAngle() reports a as the
\* rotation about the Y axis, and the position, the zoom and the three
\* speeds are what they were.
C21_SetAngleRoundTrip ==
    last.op = "setAngle" =>
        /\ ReportedAngleY(camera) = last.a
        /\ camera.cameraPos = last.before.cameraPos
        /\ camera.zoom = last.before.zoom
        /\ camera.cameraSpeed = last.before.cameraSpeed
        /\ camera.angularSpeed = last.before.angularSpeed
        /\ camera.zoomSpeed = last.before.zoomSpeed

\* What the code does: the round trip holds in lib/camera.cpp and in
\* camera.hpp; in src/camera.hpp setAngle leaves the whole object as it
\* was.
C21_SetAngleByVersion ==
    last.op = "setAngle" =>
        IF camera.version = "src/camera.hpp"
        THEN camera = last.before
        ELSE /\ ReportedAngleY(camera) = last.a
             /\ [camera EXCEPT !.angle = Vec3Zero]
                   = [last.before EXCEPT !.angle = Vec3Zero]

\* The latest call was rungeKutta4 with a force that is zero everywhere:
\* a composite with nothing registered.
ZeroForceCall ==
    /\ last.op = "rungeKutta4"
    /\ last.f \in Composites
    /\ forces[last.f] = <<>>

\* C22: rungeKutta4 with a force that is zero everywhere returns the pure
\* drift (pos + vel*dt, vel) on every call, also on one that follows a call
\* made with another force.
C22_ZeroForcePureDrift ==
    ZeroForceCall =>
        last.ret = generalizedVector(
                       VAdd(last.state.position,
                            VMulS(last.state.velocity, last.dt)),
                       last.state.velocity)

\* What the code does: on the first call of the process (the one that
\* evaluates the force four times) the velocity is returned as given and
\* the position is advanced by the float expression
\* dt / 6 * (vel + 2 vel + 2 vel + vel); on a later call stage 0 takes the
\* force the call before it left, whatever force that call was given.
C22_ZeroForceDriftOnFirstCall ==
    (ZeroForceCall /\ Len(evals) = 4) =>
        /\ last.ret.velocity = last.state.velocity
        /\ last.ret.position =
              rk4Combine(last.state.position, last.dt,
                         <<last.state.velocity, last.state.velocity,
                           last.state.velocity, last.state.velocity>>)

\* after is before without its first entry equal to f: the entries in front
\* of it stay where they are, the entries behind it move up by one.
FirstOccurrenceDeleted(before, after, f) ==
    /\ Len(after) = Len(before) - 1
    /\ \E i \in 1..Len(before) :
          /\ before[i] = f
          /\ \A h \in 1..(i - 1) : before[h] # f /\ after[h] = before[h]
          /\ \A h \in i..Len(after) : after[h] = before[h + 1]

\* C23: removeForce(f) changes the registration list only by deleting the
\* first registered occurrence of f: the other entries, later occurrences of
\* f included, keep their relative order, the list is one shorter when f was
\* registered and unchanged when it was not.
C23_RemoveForceDeletesFirst ==
    last.op = "removeForce" =>
        IF \E i \in 1..Len(last.before) : last.before[i] = last.f
        THEN FirstOccurrenceDeleted(last.before, forces[last.c], last.f)
        ELSE forces[last.c] = last.before

\* removeForce(f) has just been called on a list that held f, another force
\* and then f again, and the later f is still registered behind the other.
C23_Witness ==
    /\ last.op = "removeForce"
    /\ Len(last.before) = 3
    /\ last.before[1] = last.f
    /\ last.before[2] # last.f
    /\ last.before[3] = last.f
    /\ forces[last.c] = <<last.before[2], last.f>>

\* removeForce(f) has just been called on a non-empty list without f.
C23_WitnessNotRegistered ==
    /\ last.op = "removeForce"
    /\ last.before # <<>>
    /\ \A i \in 1..Len(last.before) : last.before[i] # last.f

\* The sum over the forces of set S of n[f] times f's value, in whole
\* quanta and without rounding.
RECURSIVE WeightedSum(_, _, _)
WeightedSum(S, n, value) ==
    IF S = {} THEN 0
    ELSE LET f == CHOOSE member \in S : TRUE
         IN  n[f] * value[f] + WeightedSum(S \ {f}, n, value)

\* The terms n[f] * value[f] are whole numbers of quanta whose absolute
\* values add up to no more than MantLimit, so that no float addition of
\* them, in whatever order, rounds.
ExactlySummable(n, value) ==
    WeightedSum(LeafForces, n, [f \in LeafForces |-> Abs(value[f])])
        <= MantLimit

\* Component i of the leaf forces' values at a point, and their energies.
ForceComponents(i, p, v, t) ==
    [f \in LeafForces |-> LeafComputeForce(f, p, v, t)[i]]
Energies(p, v, t) == [f \in LeafForces |-> LeafComputeEnergy(f, p, v, t)]

\* The evaluations of the leaf forces at a point.
LeafTable(p, v, t) ==
    [f \in LeafForces |-> [force |-> LeafComputeForce(f, p, v, t),
                           energy |-> LeafComputeEnergy(f, p, v, t)]]

\* At the point where the leaf forces evaluate to leaf, composite c returns
\* total: the float sum, from the left, of one term per entry of its list,
\* the term being the entry's own evaluation; where the terms add up
\* without rounding the total is the sum over the leaf forces of n[f] times
\* the value of f.
ContributesAt(c, n, leaf, total) ==
    /\ total.force = VSum([k \in 1..Len(forces[c]) |->
                              leaf[forces[c][k]].force])
    /\ total.energy = FSum([k \in 1..Len(forces[c]) |->
                               leaf[forces[c][k]].energy])
    /\ \A i \in 1..3 :
          LET value == [f \in LeafForces |-> leaf[f].force[i]]
          IN  ExactlySummable(n, value) =>
                  total.force[i] = WeightedSum(LeafForces, n, value)
    /\ LET value == [f \in LeafForces |-> leaf[f].energy]
       IN  ExactlySummable(n, value) =>
               total.energy = WeightedSum(LeafForces, n, value)

ContributesTimes(c, n) ==
    \A p \in EvalPositions, v \in EvalVelocities, t \in EvalTimes :
        LetIn(LeafTable(p, v, t), LAMBDA leaf :
        LetIn([force |-> ComputeForce(forces, c, p, v, t),
               energy |-> ComputeEnergy(forces, c, p, v, t)], LAMBDA total :
            ContributesAt(c, n, leaf, total)))

\* addForce appended one entry, whatever the list held, and every force is
\* in the list as many times as it was added less the times a removeForce
\* erased it.
RegistrationsCounted ==
    /\ last.op = "addForce" =>
          forces[last.c] = Append(last.before, last.f)
    /\ \A c \in Composites, f \in LeafForces :
          Count(forces[c], f) = earlier.net[c][f]

\* C24: the registration list is a multiset kept by addForce: every
\* addForce(f) appends one entry, also when f is registered already, and a
\* force registered n times (adds minus successful removes) contributes its
\* evaluation n times to computeForce and computeEnergy: n of the terms of
\* the float sum are its evaluation, and the total is n times it plus the
\* other forces' shares where the sum does not round.
C24_RegisteredTimesContributes ==
    /\ RegistrationsCounted
    /\ \A c \in Composites : ContributesTimes(c, earlier.net[c])

\* addForce(f) has just been called on a list that held f and one other
\* force, and somewhere a component of the total is twice f's value plus
\* the other's, neither being zero.
C24_Witness ==
    /\ last.op = "addForce"
    /\ Len(last.before) = 2
    /\ Count(last.before, last.f) = 1
    /\ earlier.net[last.c][last.f] = 2
    /\ \E other \in LeafForces \ {last.f} :
        \E p \in EvalPositions, v \in EvalVelocities, t \in EvalTimes :
        \E i \in 1..3 :
          /\ Count(last.before, other) = 1
          /\ ExactlySummable(earlier.net[last.c], ForceComponents(i, p, v, t))
          /\ LeafComputeForce(last.f, p, v, t)[i] # 0
          /\ LeafComputeForce(other, p, v, t)[i] # 0
          /\ ComputeForce(forces, last.c, p, v, t)[i] =
                2 * LeafComputeForce(last.f, p, v, t)[i]
                  + LeafComputeForce(other, p, v, t)[i]

\* A force comes back after a removal: two addForce calls and one erasing
\* removeForce leave it registered once.
C24_WitnessAfterRemove ==
    /\ last.op = "removeForce"
    /\ Count(last.before, last.f) = 2
    /\ earlier.net[last.c][last.f] = 1

\* The reading of C24 in exact arithmetic: the total is, everywhere, the
\* exact sum of n times each force's value. The float sums round, so this
\* holds only where ExactlySummable does.
C24_ContributesExactly ==
    \A c \in Composites :
    \A p \in EvalPositions, v \in EvalVelocities, t \in EvalTimes :
    \A i \in 1..3 :
        ComputeForce(forces, c, p, v, t)[i] =
            WeightedSum(LeafForces, earlier.net[c],
                        ForceComponents(i, p, v, t))

\* The latest increaseTime call appended one sample, the position it found.
SampleAppended ==
    last.op = "increaseTime" =>
        sim.trajectory = Append(last.before.trajectory, last.before.currentPos)

\* After n calls the trajectory holds n samples, the i-th the position
\* before step i (spelled out for the first three steps; for the later ones
\* it follows from SampleAppended call by call).
SamplesAfterSteps ==
    /\ Len(sim.trajectory) = earlier.n
    /\ \A i \in 1..Len(sim.trajectory) :
          i <= 3 => sim.trajectory[i] = StateAfterSteps(i - 1).currentPos

\* C25 as stated: each call of increaseTime appends exactly one sample, the
\* pre-step position, and advances currentTime by exactly deltaTime; after
\* n steps the trajectory holds n samples, the i-th the position before
\* step i, and currentTime = t0 + n * deltaTime (t0 = 0).
C25_OneSampleAndDeltaPerStep ==
    /\ SampleAppended
    /\ SamplesAfterSteps
    /\ last.op = "increaseTime" =>
          sim.currentTime = last.before.currentTime + DriverDeltaTime
    /\ sim.currentTime = earlier.n * DriverDeltaTime

\* n * deltaTime and every shorter multiple of deltaTime is a float.
MultiplesAreFloats(n) ==
    \A m \in 1..n : FAdd((m - 1) * DriverDeltaTime, DriverDeltaTime)
                        = m * DriverDeltaTime

\* C25 as amended: each call of increaseTime appends exactly one sample, the
\* pre-step position, so after n steps the trajectory holds n samples, the
\* i-th the position before step i; currentTime becomes the float sum
\* currentTime + deltaTime, which is t0 + n * deltaTime as long as the
\* multiples of deltaTime up to the n-th are floats.
C25_OneSamplePerStepFloatTime ==
    /\ SampleAppended
    /\ SamplesAfterSteps
    /\ last.op = "increaseTime" =>
          sim.currentTime = FAdd(last.before.currentTime, DriverDeltaTime)
    /\ MultiplesAreFloats(earlier.n) =>
          sim.currentTime = earlier.n * DriverDeltaTime

\* Several steps have been taken, over more than one frame, and the time
\* is still the exact multiple.
C25_Witness ==
    /\ last.op = "increaseTime"
    /\ earlier.n >= 4
    /\ Len(sim.trajectory) = earlier.n
    /\ sim.trajectory[earlier.n] # sim.trajectory[earlier.n - 1]
    /\ sim.elapsed > 3 * DeltaDouble
    /\ MultiplesAreFloats(earlier.n)
    /\ sim.currentTime = earlier.n * DriverDeltaTime

\* A step has been taken that left currentTime where it was.
C25_WitnessStalled ==
    /\ last.op = "increaseTime"
    /\ sim.currentTime = last.before.currentTime
    /\ Len(sim.trajectory) = Len(last.before.trajectory) + 1

\* The composites registered in composite c.
RegisteredComposites(fs, c) ==
    {fs[c][i] : i \in 1..Len(fs[c])} \cap Composites

\* The composites reached from c through at most n registrations.
RECURSIVE ReachableWithin(_, _, _)
ReachableWithin(fs, c, n) ==
    IF n = 0 THEN {}
    ELSE RegisteredComposites(fs, c) \cup
         UNION {ReachableWithin(fs, d, n - 1) :
                    d \in RegisteredComposites(fs, c)}

\* No composite is reachable from itself through registrations.
NoCycle ==
    \A c \in Composites :
        c \notin ReachableWithin(forces, c, Cardinality(Composites))

\* The entries a call on composite c evaluates from its i-th on, in order:
\* each entry of its list and, behind a composite entry, what the nested
\* call evaluates.
RECURSIVE VisitsFrom(_, _, _)
VisitsFrom(fs, c, i) ==
    IF i > Len(fs[c]) THEN <<>>
    ELSE <<[c |-> c, i |-> i, f |-> fs[c][i]]>>
         \o (IF fs[c][i] \in Composites
             THEN VisitsFrom(fs, fs[c][i], 1)
             ELSE <<>>)
         \o VisitsFrom(fs, c, i + 1)

\* The call that has returned evaluated each entry of the root's list once,
\* in registration order, and every nested call did the same with its own
\* list; the value returned is that of computeForce (computeEnergy).
EvaluatedOnceInOrder ==
    LET own == SelectSeq(evals, LAMBDA e : e.c = last.root)
    IN  /\ Len(own) = Len(forces[last.root])
        /\ \A k \in 1..Len(own) :
              own[k].i = k /\ own[k].f = forces[last.root][k]
        /\ evals = VisitsFrom(forces, last.root, 1)
        /\ last.op = "computeForce" =>
              last.ret.force = ComputeForce(forces, last.root, last.position,
                                            last.velocity, last.time)
        /\ last.op = "computeEnergy" =>
              last.ret.energy = ComputeEnergy(forces, last.root,
                                              last.position, last.velocity,
                                              last.time)

\* C26: when no composite is reachable from itself through registrations
\* (addForce accepts a composite in itself, directly or through another),
\* computeForce and computeEnergy terminate, having evaluated each
\* registered entry exactly once in registration order.
C26_AcyclicEvaluationTerminates ==
    /\ []((Finished /\ NoCycle) => EvaluatedOnceInOrder)
    /\ ((Running /\ NoCycle) ~> Finished)

\* A call on a composite that holds a leaf force and then a composite with
\* two forces of its own has returned a non-zero total.
C26_Witness ==
    /\ Finished
    /\ NoCycle
    /\ Len(forces[last.root]) = 2
    /\ forces[last.root][1] \in LeafForces
    /\ forces[last.root][2] \in Composites
    /\ Len(forces[forces[last.root][2]]) = 2
    /\ Len(evals) = 4
    /\ last.ret # ZeroTotal

\* addForce has registered a composite in itself, or each in the other, and
\* a call that reached the cycle has nested until the stack was exhausted.
C26_WitnessCycle ==
    /\ last.op \in Evaluations
    /\ last.status = "overflow"
    /\ ~NoCycle

\* A call returns only when no cycle is reachable from its root.
C26_ReturnsOnlyWithoutCycle ==
    Finished =>
        \A c \in {last.root} \cup
                  ReachableWithin(forces, last.root, Cardinality(Composites)) :
            c \notin ReachableWithin(forces, c, Cardinality(Composites))
====
